---------------------------- MODULE Spec2Model ----------------------------
(***************************************************************************)
(* A model of ygo-genesys-helper: the YDKE deck codec (lib/ydke.ts), the   *)
(* card-name normalisation (lib/strings.ts), the point aggregation and the *)
(* missing-ID resolution of the App component (App.tsx,                    *)
(* components/MissingIdResolver.tsx).                                      *)
(*                                                                         *)
(* Representation.                                                         *)
(*  - A JavaScript string is a sequence of UTF-16 code units (naturals).    *)
(*  - A JavaScript number holding an unsigned 32-bit card id is a pair      *)
(*    <<hi, lo>> of 16-bit halves (value hi * 65536 + lo): the checker's    *)
(*    integers are signed 32-bit, and ids above 2^31 must be representable. *)
(*  - A thrown Error is the non-empty `error` field of a result record.     *)
(***************************************************************************)
EXTENDS Integers, Sequences, FiniteSets, TLC

VARIABLES
    \* ---- App component state (useState) ----
    deckInput,          \* the deck text field
    cardDetails,        \* Record<number, CardDetails>: fetched metadata by id
    isFetchingCards,    \* a metadata fetch for the current deck is in flight
    cardError,          \* the message of the failed metadata fetch, "" for null
    fetches,            \* the fetch closures still awaiting fetchCardsByIds
    cardSortMode,       \* per-zone sort mode, "points" | "default"
    pointCap,           \* the point cap of the summary panel
    missingCardContext, \* the zone whose resolver is open, or NoContext
    toast,              \* the last toast raised (sonner)
    \* ---- App component memos (useMemo), recomputed by every render ----
    deck,               \* the deck / deckError memo
    deckGroups,         \* the deckGroups memo
    cardsOverCap,       \* the over-cap flag handed to the summary panel
    \* ---- MissingIdResolver component state ----
    selectedCards,      \* the replacement cards picked so far
    \* ---- the data the build ships (data/genesys-card-list.json) ----
    genesysCards,       \* the point list: a sequence of [name, points]
    \* ---- the router (useLocation) and the effects that read it ----
    location,           \* [pathname, deck]: the path and the 'deck' query parameter
    committed,          \* the dependencies the URL effects last ran with
    committedAt,        \* the field and the location they last ran for
    \* ---- the saved decks (useState, mirrored in localStorage) ----
    savedFolders,       \* the folders, each [id, name, decks]
    \* ---- a metadata lookup of lib/ygoprodeck.ts, request by request ----
    lookup,             \* "idle" | "running" | "resolved" | "rejected"
    chunkCalls,         \* the chunks fetchChunk is still to be called with, in call order
    fetchedCards,       \* the ids of the cards the calls returned so far, in order
    requestLog,         \* the requests made: [chunk, response]
    \* ---- a caller of the library functions ----
    pc,                 \* which call the caller makes next
    codecIn,            \* a deck handed to buildYdke
    ydke,               \* a deck-code text
    parsed,             \* the result of parseYdke(ydke)
    rebuilt,            \* buildYdke of the parsed deck
    token,              \* encodeDeckHash(ydke)
    decoded,            \* decodeDeckHash(token)
    rawName,            \* a card name
    norm1,              \* normalizeCardName(rawName)
    norm2,              \* normalizeCardName(norm1)
    textIn,             \* a text handed to parseYdke or parseYdk
    parsedText          \* the result of parsing textIn

capVars == <<pointCap, cardsOverCap>>
fetchVars == <<isFetchingCards, cardError, fetches>>
routeVars == <<location, committed, committedAt>>
lookupVars == <<lookup, chunkCalls, fetchedCards, requestLog>>
hostVars == <<genesysCards, routeVars, savedFolders, lookupVars>>
appVars == <<deckInput, cardDetails, fetchVars, cardSortMode, deck, deckGroups, missingCardContext, toast,
             selectedCards, hostVars, capVars>>
textVars == <<textIn, parsedText>>
libVars == <<pc, codecIn, ydke, parsed, rebuilt, token, decoded, rawName, norm1, norm2, textVars>>
vars == <<appVars, libVars>>

---------------------------------------------------------------------------
(* Bounds of the model. *)

\* the most cards (over the three sections) of a deck handed to the codec
MaxCodecCards == 3
\* the most code units of a name handed to normalizeCardName
MaxNameLen == 3

---------------------------------------------------------------------------
(* Strings. *)

Str == Seq(Nat)

\* code units the sources name
ChBang == 33
ChEq == 61
ChPlus == 43
ChSlash == 47
ChMinus == 45
ChUnderscore == 95
ChSpace == 32
ChApostrophe == 39

\* "ydke://"
YdkeMarker == <<121, 100, 107, 101, 58, 47, 47>>

\* the characters \s matches and String.prototype.trim strips
IsSpace(c) ==
    \/ c \in {9, 10, 11, 12, 13, 32, 160, 5760, 8232, 8233, 8239, 8287, 12288, 65279}
    \/ c \in 8192..8202

\* String.prototype.toLowerCase, one code unit (ASCII and Latin-1 letters)
LowerChar(c) ==
    IF c \in 65..90 \/ (c \in 192..222 /\ c # 215) THEN c + 32 ELSE c

toLowerCase(s) == [i \in 1..Len(s) |-> LowerChar(s[i])]

\* s.slice(from) with a 0-based index
SliceFrom(s, from) == SubSeq(s, from + 1, Len(s))

RECURSIVE TrimStart(_)
TrimStart(s) ==
    IF s # <<>> /\ IsSpace(Head(s)) THEN TrimStart(Tail(s)) ELSE s

RECURSIVE TrimEnd(_)
TrimEnd(s) ==
    IF s # <<>> /\ IsSpace(s[Len(s)]) THEN TrimEnd(SubSeq(s, 1, Len(s) - 1)) ELSE s

\* String.prototype.trim
Trim(s) == TrimEnd(TrimStart(s))

\* whether pat occurs in s at 0-based index i
MatchesAt(s, pat, i) ==
    /\ i + Len(pat) <= Len(s)
    /\ \A j \in 1..Len(pat) : s[i + j] = pat[j]

\* String.prototype.indexOf: the first 0-based index of pat in s, or -1
IndexOf(s, pat) ==
    LET hits == {i \in 0..Len(s) : MatchesAt(s, pat, i)}
    IN  IF hits = {} THEN -1 ELSE CHOOSE i \in hits : \A j \in hits : i <= j

\* s.replace(/\s+/g, '')
RemoveSpaces(s) == SelectSeq(s, LAMBDA c : ~IsSpace(c))

\* s.replace(/<from>/g, <to>) for single code units
ReplaceChar(s, from, to) == [i \in 1..Len(s) |-> IF s[i] = from THEN to ELSE s[i]]

\* s.split(sep) for a one-unit separator: always at least one part
RECURSIVE SplitFrom(_, _, _, _)
SplitFrom(s, sep, i, cur) ==
    IF i > Len(s) THEN <<cur>>
    ELSE IF s[i] = sep THEN <<cur>> \o SplitFrom(s, sep, i + 1, <<>>)
    ELSE SplitFrom(s, sep, i + 1, Append(cur, s[i]))

Split(s, sep) == SplitFrom(s, sep, 1, <<>>)

\* parts.join(sep)
RECURSIVE Join(_, _)
Join(parts, sep) ==
    IF parts = <<>> THEN <<>>
    ELSE IF Len(parts) = 1 THEN parts[1]
    ELSE parts[1] \o <<sep>> \o Join(Tail(parts), sep)

\* '='.repeat(n)
Repeat(c, n) == [i \in 1..n |-> c]

---------------------------------------------------------------------------
(* Base64: the browser's btoa and atob (forgiving-base64 decode).           *)

\* the base64 alphabet: the character of a 6-bit value
B64Char(v) ==
    IF v < 26 THEN 65 + v
    ELSE IF v < 52 THEN 97 + (v - 26)
    ELSE IF v < 62 THEN 48 + (v - 52)
    ELSE IF v = 62 THEN ChPlus ELSE ChSlash

\* the 6-bit value of a character, -1 for a character outside the alphabet
B64Index(c) ==
    IF c \in 65..90 THEN c - 65
    ELSE IF c \in 97..122 THEN c - 97 + 26
    ELSE IF c \in 48..57 THEN c - 48 + 52
    ELSE IF c = ChPlus THEN 62
    ELSE IF c = ChSlash THEN 63
    ELSE -1

\* btoa(binary): standard alphabet, padded to a multiple of 4 characters
RECURSIVE btoa(_)
btoa(b) ==
    IF Len(b) = 0 THEN <<>>
    ELSE IF Len(b) = 1 THEN
        <<B64Char(b[1] \div 4), B64Char((b[1] % 4) * 16), ChEq, ChEq>>
    ELSE IF Len(b) = 2 THEN
        <<B64Char(b[1] \div 4), B64Char((b[1] % 4) * 16 + b[2] \div 16),
          B64Char((b[2] % 16) * 4), ChEq>>
    ELSE
        <<B64Char(b[1] \div 4), B64Char((b[1] % 4) * 16 + b[2] \div 16),
          B64Char((b[2] % 16) * 4 + b[3] \div 64), B64Char(b[3] % 64)>>
        \o btoa(SubSeq(b, 4, Len(b)))

\* the bytes of a run of 6-bit values; the bits left over at the end are dropped
RECURSIVE SextetsToBytes(_)
SextetsToBytes(x) ==
    IF Len(x) >= 4 THEN
        <<x[1] * 4 + x[2] \div 16, (x[2] % 16) * 16 + x[3] \div 4, (x[3] % 4) * 64 + x[4]>>
        \o SextetsToBytes(SubSeq(x, 5, Len(x)))
    ELSE IF Len(x) = 3 THEN
        <<x[1] * 4 + x[2] \div 16, (x[2] % 16) * 16 + x[3] \div 4>>
    ELSE IF Len(x) = 2 THEN
        <<x[1] * 4 + x[2] \div 16>>
    ELSE <<>>

\* the trailing padding atob removes: one or two '=' of a text whose length is
\* a multiple of 4
StripPadding(s) ==
    IF Len(s) % 4 = 0 /\ Len(s) > 0 /\ s[Len(s)] = ChEq THEN
        IF s[Len(s) - 1] = ChEq THEN SubSeq(s, 1, Len(s) - 2)
        ELSE SubSeq(s, 1, Len(s) - 1)
    ELSE s

\* atob(text): [error, bytes]; InvalidCharacterError for a length of 1 mod 4
\* or a character outside the alphabet
ErrAtob == "InvalidCharacterError"

DecodeData(data) ==
    IF Len(data) % 4 = 1 \/ \E i \in 1..Len(data) : B64Index(data[i]) = -1
    THEN [error |-> ErrAtob, bytes |-> <<>>]
    ELSE [error |-> "",
          bytes |-> SextetsToBytes([i \in 1..Len(data) |-> B64Index(data[i])])]

atob(text) ==
    DecodeData(StripPadding(SelectSeq(text, LAMBDA c : c \notin {9, 10, 12, 13, 32})))

\* base64ToBytes without the URL-safe alphabet mapped back
base64ToBytesStandardOnly(encoded) ==
    atob(encoded \o Repeat(ChEq, (4 - (Len(encoded) % 4)) % 4))

\* lib/ydke.ts base64ToBytes
Padded(normalized) ==
    normalized \o Repeat(ChEq, (4 - (Len(normalized) % 4)) % 4)

base64ToBytes(encoded) ==
    atob(Padded(ReplaceChar(ReplaceChar(encoded, ChMinus, ChPlus), ChUnderscore, ChSlash)))

\* s.replace(/=+$/u, '')
RECURSIVE StripTrailingEq(_)
StripTrailingEq(s) ==
    IF s # <<>> /\ s[Len(s)] = ChEq THEN StripTrailingEq(SubSeq(s, 1, Len(s) - 1)) ELSE s

\* lib/ydke.ts bytesToBase64Url
bytesToBase64Url(bytes) ==
    StripTrailingEq(ReplaceChar(ReplaceChar(btoa(bytes), ChPlus, ChMinus), ChSlash, ChUnderscore))

\* lib/ydke.ts bytesToBase64Standard
bytesToBase64Standard(bytes) == btoa(bytes)

---------------------------------------------------------------------------
(* The deck codec, lib/ydke.ts.                                             *)

\* unsigned 32-bit numbers as <<hi, lo>>
U32(n) == <<n \div 65536, n % 65536>>
Zero == U32(0)
IsU32(id) == id[1] \in 0..65535 /\ id[2] \in 0..65535

\* DataView.setUint32(offset, id, true): four bytes, little-endian. The value
\* is first taken to an unsigned 32-bit integer (ToUint32): of a number that
\* is none (see NumberOf) the integer part modulo 2^32 is written.
setUint32(id) == <<id[2] % 256, id[2] \div 256, id[1] % 256, id[1] \div 256>>

\* getUint32 reading big-endian (the littleEndian flag left out)
getUint32BigEndian(bytes, offset) ==
    <<bytes[offset + 2] + 256 * bytes[offset + 1], bytes[offset + 4] + 256 * bytes[offset + 3]>>

\* DataView.getUint32(offset, true), offset 0-based
getUint32(bytes, offset) ==
    <<bytes[offset + 3] + 256 * bytes[offset + 4], bytes[offset + 1] + 256 * bytes[offset + 2]>>

RECURSIVE IdsToBytes(_)
IdsToBytes(ids) ==
    IF ids = <<>> THEN <<>> ELSE setUint32(Head(ids)) \o IdsToBytes(Tail(ids))

\* encodeSection through the URL-safe, unpadded encoder
encodeSectionUrlSafe(ids) ==
    IF Len(ids) = 0 THEN <<>> ELSE bytesToBase64Url(IdsToBytes(ids))

encodeSection(ids) ==
    IF Len(ids) = 0 THEN <<>> ELSE bytesToBase64Standard(IdsToBytes(ids))

buildYdke(main, extra, side) ==
    YdkeMarker \o Join(<<encodeSection(main), encodeSection(extra), encodeSection(side)>>, ChBang)

ErrNoDeck == "Paste a YDKE link to get started."
ErrIncomplete == "Incomplete YDKE link. Make sure it includes main, extra, and side sections."
ErrAlign == "Invalid YDKE data. Each section must be aligned to 4 bytes."

\* the loop of decodeSection: the cards read so far, lastId and inferredCount;
\* at the end of the bytes, what decodeSection returns
\* the loop of decodeSection counting every 0, a preceding id or not
RECURSIVE ReadCardsEveryZero(_, _, _, _, _)
ReadCardsEveryZero(bytes, offset, cards, lastId, inferredCount) ==
    IF offset >= Len(bytes)
    THEN [error |-> "", cards |-> cards, inferredCount |-> inferredCount]
    ELSE ReadCardsEveryZero(bytes, offset + 4, Append(cards, getUint32(bytes, offset)), lastId,
                            inferredCount + (IF getUint32(bytes, offset) = Zero THEN 1 ELSE 0))

RECURSIVE ReadCards(_, _, _, _, _)
ReadCards(bytes, offset, cards, lastId, inferredCount) ==
    IF offset >= Len(bytes)
    THEN [error |-> "", cards |-> cards, inferredCount |-> inferredCount]
    ELSE LET cardId == getUint32(bytes, offset)
         IN  IF cardId = Zero /\ lastId # Zero
             THEN ReadCards(bytes, offset + 4, Append(cards, cardId), lastId, inferredCount + 1)
             ELSE IF cardId # Zero
             THEN ReadCards(bytes, offset + 4, Append(cards, cardId), cardId, inferredCount)
             ELSE ReadCards(bytes, offset + 4, Append(cards, cardId), lastId, inferredCount)

\* a decodeSection that drops the bytes after the last whole card
TruncatedCards(r) ==
    IF r.error # "" THEN [error |-> r.error, cards |-> <<>>, inferredCount |-> 0]
    ELSE ReadCards(SubSeq(r.bytes, 1, Len(r.bytes) - (Len(r.bytes) % 4)), 0, <<>>, Zero, 0)

decodeSectionTruncating(section) ==
    IF section = <<>> THEN [error |-> "", cards |-> <<>>, inferredCount |-> 0]
    ELSE TruncatedCards(base64ToBytes(section))

\* decodeSection: [error, cards, inferredCount], of the bytes of a section
\* that is not empty and of a section
DecodeBytes(r) ==
    IF r.error # "" THEN [error |-> r.error, cards |-> <<>>, inferredCount |-> 0]
    ELSE IF Len(r.bytes) % 4 # 0
    THEN [error |-> ErrAlign, cards |-> <<>>, inferredCount |-> 0]
    ELSE ReadCards(r.bytes, 0, <<>>, Zero, 0)

decodeSection(section) ==
    IF section = <<>> THEN [error |-> "", cards |-> <<>>, inferredCount |-> 0]
    ELSE DecodeBytes(base64ToBytes(section))

\* a call that threw: no deck
Thrown(msg) == [error |-> msg, main |-> <<>>, extra |-> <<>>, side |-> <<>>, inferredCardCount |-> 0]

\* parseYdke: [error, main, extra, side, inferredCardCount]; inferredCardCount 0
\* stands for undefined. From the last step to the first: the deck of the
\* three decoded sections, the sections decoded, the data after the marker,
\* the sanitized input split into sections, the call.
ParsedDeck(mainDecoded, extraDecoded, sideDecoded) ==
    IF mainDecoded.error # "" THEN Thrown(mainDecoded.error)
    ELSE IF extraDecoded.error # "" THEN Thrown(extraDecoded.error)
    ELSE IF sideDecoded.error # "" THEN Thrown(sideDecoded.error)
    ELSE [error |-> "",
          main |-> mainDecoded.cards,
          extra |-> extraDecoded.cards,
          side |-> sideDecoded.cards,
          inferredCardCount |-> mainDecoded.inferredCount
               + extraDecoded.inferredCount + sideDecoded.inferredCount]

ParseSections(sections) ==
    IF Len(sections) < 3 THEN Thrown(ErrIncomplete)
    ELSE ParsedDeck(decodeSection(sections[1]), decodeSection(sections[2]),
                    decodeSection(sections[3]))

DataOf(sanitized, ydkeMarker) ==
    IF ydkeMarker >= 0 THEN SliceFrom(sanitized, ydkeMarker + 7) ELSE sanitized

\* parseYdke looking for the marker without lowering the letter case
ParseSanitizedCaseSensitive(sanitized) ==
    IF sanitized = <<>> THEN Thrown(ErrNoDeck)
    ELSE ParseSections(
            Split(RemoveSpaces(DataOf(sanitized, IndexOf(sanitized, YdkeMarker))),
                  ChBang))

ParseSanitized(sanitized) ==
    IF sanitized = <<>> THEN Thrown(ErrNoDeck)
    ELSE ParseSections(
            Split(RemoveSpaces(DataOf(sanitized, IndexOf(toLowerCase(sanitized), YdkeMarker))),
                  ChBang))

\* parseYdke without the trim of its input
parseYdkeUntrimmed(rawInput) == ParseSanitized(rawInput)

parseYdke(rawInput) == ParseSanitized(Trim(rawInput))

---------------------------------------------------------------------------
(* The plain-text deck list: Number(line) and parseYdk.                     *)

\* A number above 0 that Number(line) yields: an unsigned 32-bit integer is the
\* pair U32 makes; any other number carries after its low 32 bits <<hi, lo>>
\* what lies above them (top, in units of 2^32) and the digits of its
\* fraction.
NumberOf(top, hi, lo, frac) ==
    IF top = 0 /\ frac = <<>> THEN <<hi, lo>> ELSE <<hi, lo, top, frac>>

\* ten times the integer <<top, hi, lo>> plus the digit d
TimesTenPlus(n, d) ==
    << n[1] * 10 + (n[2] * 10 + (n[3] * 10 + d) \div 65536) \div 65536,
       (n[2] * 10 + (n[3] * 10 + d) \div 65536) % 65536,
       (n[3] * 10 + d) % 65536 >>

IsDigit(c) == c \in 48..57

RECURSIVE DigitsValue(_, _)
DigitsValue(digits, n) ==
    IF digits = <<>> THEN n
    ELSE DigitsValue(Tail(digits), TimesTenPlus(n, Head(digits) - 48))

\* the digits of a fraction without its trailing zeros
RECURSIVE StripZeros(_)
StripZeros(digits) ==
    IF digits # <<>> /\ digits[Len(digits)] = 48
    THEN StripZeros(SubSeq(digits, 1, Len(digits) - 1))
    ELSE digits

NotANumber == [nan |-> TRUE, positive |-> FALSE, value |-> <<0, 0>>]

\* the number written as the digits int, a point or none, the digits frac
DecimalOf(negative, int, frac, n) ==
    IF (int = <<>> /\ frac = <<>>)
       \/ \E i \in 1..Len(int) : ~IsDigit(int[i])
       \/ \E j \in 1..Len(frac) : ~IsDigit(frac[j])
    THEN NotANumber
    ELSE [nan |-> FALSE,
          positive |-> ~negative /\ (n # <<0, 0, 0>> \/ StripZeros(frac) # <<>>),
          value |-> NumberOf(n[1], n[2], n[3], StripZeros(frac))]

UnsignedOf(negative, digits, point) ==
    IF point < 0
    THEN DecimalOf(negative, digits, <<>>, DigitsValue(digits, <<0, 0, 0>>))
    ELSE DecimalOf(negative, SubSeq(digits, 1, point), SliceFrom(digits, point + 1),
                   DigitsValue(SubSeq(digits, 1, point), <<0, 0, 0>>))

\* Number(line) of a trimmed, non-empty line written as a decimal literal:
\* a sign or none, digits, a point and digits or none. Any other line the
\* callers of this model hand in is no number (NaN); exponents, 'Infinity' and
\* the 0x, 0o and 0b literals are not among them.
Number(line) ==
    IF line[1] \in {43, 45}
    THEN UnsignedOf(line[1] = 45, Tail(line), IndexOf(Tail(line), <<46>>))
    ELSE UnsignedOf(FALSE, line, IndexOf(line, <<46>>))

HeaderCreated == <<35, 99, 114, 101, 97, 116, 101, 100>> \* '#created'
HeaderMain == <<35, 109, 97, 105, 110>>                  \* '#main'
HeaderExtra == <<35, 101, 120, 116, 114, 97>>            \* '#extra'
HeaderSide == <<35, 115, 105, 100, 101>>                 \* '#side'
HeaderBangSide == <<33, 115, 105, 100, 101>>             \* '!side'

SimpleDeck(main, extra, side) == [main |-> main, extra |-> extra, side |-> side]

\* deck[current].push(id)
Pushed(d, current, id) ==
    IF current = "main" THEN SimpleDeck(Append(d.main, id), d.extra, d.side)
    ELSE IF current = "extra" THEN SimpleDeck(d.main, Append(d.extra, id), d.side)
    ELSE SimpleDeck(d.main, d.extra, Append(d.side, id))

\* the forEach of parseYdk over the trimmed lines from line i on
RECURSIVE ParseYdkLines(_, _, _, _)
YdkId(lines, i, current, d, id) ==
    IF ~id.nan /\ id.positive
    THEN ParseYdkLines(lines, i + 1, current, Pushed(d, current, id.value))
    ELSE ParseYdkLines(lines, i + 1, current, d)

\* a line handler in which a line that is no id and no known header sends
\* the following ids back to the main section
YdkLineSkipResets(lines, i, current, d, line, lower) ==
    IF line = <<>> \/ MatchesAt(line, HeaderCreated, 0)
    THEN ParseYdkLines(lines, i + 1, current, d)
    ELSE IF lower = HeaderMain THEN ParseYdkLines(lines, i + 1, "main", d)
    ELSE IF lower = HeaderExtra THEN ParseYdkLines(lines, i + 1, "extra", d)
    ELSE IF lower = HeaderSide \/ lower = HeaderBangSide
    THEN ParseYdkLines(lines, i + 1, "side", d)
    ELSE IF line[1] \in {35, 33} THEN ParseYdkLines(lines, i + 1, "main", d)
    ELSE YdkId(lines, i, current, d, Number(line))

YdkLine(lines, i, current, d, line, lower) ==
    IF line = <<>> \/ MatchesAt(line, HeaderCreated, 0)
    THEN ParseYdkLines(lines, i + 1, current, d)
    ELSE IF lower = HeaderMain THEN ParseYdkLines(lines, i + 1, "main", d)
    ELSE IF lower = HeaderExtra THEN ParseYdkLines(lines, i + 1, "extra", d)
    ELSE IF lower = HeaderSide \/ lower = HeaderBangSide
    THEN ParseYdkLines(lines, i + 1, "side", d)
    ELSE IF line[1] \in {35, 33} THEN ParseYdkLines(lines, i + 1, current, d)
    ELSE YdkId(lines, i, current, d, Number(line))

ParseYdkLines(lines, i, current, d) ==
    IF i > Len(lines) THEN d
    ELSE YdkLine(lines, i, current, d, Trim(lines[i]), toLowerCase(Trim(lines[i])))

\* parseYdk(text): text.split(/\r?\n/u), every line trimmed (the trim takes
\* the carriage return the split left)
parseYdk(content) ==
    ParseYdkLines(Split(content, 10), 1, "main", SimpleDeck(<<>>, <<>>, <<>>))

---------------------------------------------------------------------------
(* The share token, lib/ydke.ts encodeDeckHash / decodeDeckHash.            *)

\* the UTF-8 bytes of a string (pako's string input; code units below 2^16,
\* no surrogates)
RECURSIVE Utf8Encode(_)
Utf8Encode(s) ==
    IF s = <<>> THEN <<>>
    ELSE LET c == Head(s)
             b == IF c < 128 THEN <<c>>
                  ELSE IF c < 2048 THEN <<192 + (c \div 64), 128 + (c % 64)>>
                  ELSE <<224 + (c \div 4096), 128 + ((c \div 64) % 64), 128 + (c % 64)>>
         IN  b \o Utf8Encode(Tail(s))

\* new TextDecoder().decode(bytes), on well-formed UTF-8
RECURSIVE Utf8Decode(_)
Utf8Decode(b) ==
    IF b = <<>> THEN <<>>
    ELSE IF b[1] < 128 THEN <<b[1]>> \o Utf8Decode(SubSeq(b, 2, Len(b)))
    ELSE IF b[1] < 224 THEN
        <<(b[1] - 192) * 64 + (b[2] - 128)>> \o Utf8Decode(SubSeq(b, 3, Len(b)))
    ELSE
        <<(b[1] - 224) * 4096 + (b[2] - 128) * 64 + (b[3] - 128)>>
        \o Utf8Decode(SubSeq(b, 4, Len(b)))

\* pako's gzip and ungzip, as a lossless pair: a member is the magic and
\* method bytes, the payload with every byte complemented (as with deflate
\* output, bytes of any value occur), and the payload's length modulo 256
GzipHeader == <<31, 139, 8>>
ErrGzip == "incorrect header check"

gzip(text) ==
    LET payload == Utf8Encode(text)
    IN  GzipHeader \o [i \in 1..Len(payload) |-> 255 - payload[i]] \o <<Len(payload) % 256>>

ungzip(bytes) ==
    IF /\ Len(bytes) >= 4
       /\ SubSeq(bytes, 1, 3) = GzipHeader
       /\ bytes[Len(bytes)] = (Len(bytes) - 4) % 256
    THEN [error |-> "", bytes |-> [i \in 1..(Len(bytes) - 4) |-> 255 - bytes[i + 3]]]
    ELSE [error |-> ErrGzip, bytes |-> <<>>]

encodeDeckHash(ydkeText) == bytesToBase64Url(gzip(Trim(ydkeText)))

\* decodeDeckHash: [error, text]
decodeDeckHash(encoded) ==
    LET r == base64ToBytes(encoded)
    IN  IF r.error # "" THEN [error |-> r.error, text |-> <<>>]
        ELSE LET u == ungzip(r.bytes)
             IN  IF u.error # "" THEN [error |-> u.error, text |-> <<>>]
                 ELSE [error |-> "", text |-> Utf8Decode(u.bytes)]

---------------------------------------------------------------------------
(* Card names, lib/strings.ts and App.tsx.                                  *)

\* the mis-encoded apostrophe the point list carries: U+00E2 U+20AC U+2122
BadApostrophe == <<226, 8364, 8482>>

\* s.replace(/<pat>/g, <to>): every match, left to right, without overlap
RECURSIVE ReplaceAll(_, _, _)
ReplaceAll(s, pat, to) ==
    IF s = <<>> THEN <<>>
    ELSE IF MatchesAt(s, pat, 0) THEN to \o ReplaceAll(SliceFrom(s, Len(pat)), pat, to)
    ELSE <<Head(s)>> \o ReplaceAll(Tail(s), pat, to)

\* s.replace(/\s+/g, ' ')
RECURSIVE CollapseSpaces(_)
CollapseSpaces(s) ==
    IF s = <<>> THEN <<>>
    ELSE IF IsSpace(Head(s)) THEN <<ChSpace>> \o CollapseSpaces(TrimStart(s))
    ELSE <<Head(s)>> \o CollapseSpaces(Tail(s))

normalizeCardName(name) ==
    toLowerCase(CollapseSpaces(ReplaceAll(Trim(name), BadApostrophe, <<ChApostrophe>>)))

---------------------------------------------------------------------------
(* Text the sources name.                                                   *)

TxtMonster == <<109, 111, 110, 115, 116, 101, 114>> \* "monster"
TxtSpell == <<115, 112, 101, 108, 108>> \* "spell"
TxtTrap == <<116, 114, 97, 112>> \* "trap"
TxtNormal == <<110, 111, 114, 109, 97, 108>> \* "normal"
TxtPendulum == <<112, 101, 110, 100, 117, 108, 117, 109>> \* "pendulum"
TxtEffect == <<101, 102, 102, 101, 99, 116>> \* "effect"
TxtRitual == <<114, 105, 116, 117, 97, 108>> \* "ritual"
TxtFusion == <<102, 117, 115, 105, 111, 110>> \* "fusion"
TxtSynchro == <<115, 121, 110, 99, 104, 114, 111>> \* "synchro"
TxtXyz == <<120, 121, 122>> \* "xyz"
TxtLink == <<108, 105, 110, 107>> \* "link"
TxtQuick == <<113, 117, 105, 99, 107>> \* "quick"
TxtField == <<102, 105, 101, 108, 100>> \* "field"
TxtContinuous == <<99, 111, 110, 116, 105, 110, 117, 111, 117, 115>> \* "continuous"
TxtEquip == <<101, 113, 117, 105, 112>> \* "equip"
TxtCounter == <<99, 111, 117, 110, 116, 101, 114>> \* "counter"
TxtMissingId == <<77, 105, 115, 115, 105, 110, 103, 32, 73, 68>> \* "Missing ID"
TxtCardHash == <<67, 97, 114, 100, 32, 35>> \* "Card #"

\* an optional string that is undefined, and x ?? ''
Undefined == <<-1>>
OrEmpty(x) == IF x = Undefined THEN <<>> ELSE x

\* an optional level that is undefined
NoLevel == -1

\* s.includes(pat)
Includes(s, pat) == IndexOf(s, pat) >= 0

\* a.localeCompare(b) on lower-cased names: -1, 0 or 1. Code-unit order, which
\* is the collation order of the characters the model's names use
\* (space < '#' < digits < letters).
RECURSIVE localeCompare(_, _)
localeCompare(a, b) ==
    IF a = <<>> /\ b = <<>> THEN 0
    ELSE IF a = <<>> THEN -1
    ELSE IF b = <<>> THEN 1
    ELSE IF Head(a) < Head(b) THEN -1
    ELSE IF Head(a) > Head(b) THEN 1
    ELSE localeCompare(Tail(a), Tail(b))

\* `${id}`: the decimal digits of an unsigned 32-bit number
RECURSIVE ToDecimal(_)
ToDecimal(id) ==
    LET t == (id[1] % 10) * 65536 + id[2]
        q == <<id[1] \div 10, t \div 10>>
    IN  IF q = Zero THEN <<48 + (t % 10)>> ELSE Append(ToDecimal(q), 48 + (t % 10))

\* App.tsx simplifyCardName: drop a trailing parenthetical (the leftmost
\* position from which the rest of the name is one), collapse whitespace, trim
IsParenthetical(u) ==
    /\ Len(u) >= 2
    /\ u[1] = 40
    /\ u[Len(u)] = 41
    /\ \A k \in 2..(Len(u) - 1) : u[k] # 41

ParenSuffixAt(s, i) == IsParenthetical(Trim(SliceFrom(s, i)))

CutAtFirst(name, hits) ==
    IF hits = {} THEN name
    ELSE SubSeq(name, 1, CHOOSE i \in hits : \A j \in hits : i <= j)

simplifyCardName(name) ==
    Trim(CollapseSpaces(CutAtFirst(name, {i \in 0..Len(name) : ParenSuffixAt(name, i)})))

---------------------------------------------------------------------------
(* The memos of App.tsx: deck, missingSlots, the point index, deckGroups.   *)

\* the deck / deckError memo: deck is null when hasDeck is FALSE, deckError is
\* null when it is ""
DeckOrError(p) ==
    IF p.error = ""
    THEN [hasDeck |-> TRUE, deck |-> p, deckError |-> ""]
    ELSE [hasDeck |-> FALSE, deck |-> Thrown(""), deckError |-> p.error]

DeckOfSanitized(sanitized) ==
    IF sanitized = <<>>
    THEN [hasDeck |-> FALSE, deck |-> Thrown(""), deckError |-> ""]
    ELSE DeckOrError(parseYdke(sanitized))

DeckMemo(input) == DeckOfSanitized(Trim(input))

Section(d, zone) ==
    IF zone = "main" THEN d.main ELSE IF zone = "extra" THEN d.extra ELSE d.side

\* uniqueCardIds: the ids above 0 of the deck
UniqueCardIds(memo) ==
    IF ~memo.hasDeck THEN {}
    ELSE ({memo.deck.main[i] : i \in 1..Len(memo.deck.main)}
          \cup {memo.deck.extra[i] : i \in 1..Len(memo.deck.extra)}
          \cup {memo.deck.side[i] : i \in 1..Len(memo.deck.side)}) \ {Zero}

\* findSlots: the 0-based indexes of the placeholder ids, ascending
RECURSIVE findSlots(_, _)
findSlots(section, index) ==
    IF index >= Len(section) THEN <<>>
    ELSE IF section[index + 1] = Zero THEN <<index>> \o findSlots(section, index + 1)
    ELSE findSlots(section, index + 1)

MissingSlots(memo, zone) ==
    IF ~memo.hasDeck THEN <<>> ELSE findSlots(Section(memo.deck, zone), 0)

\* a point index in which the first entry of a normalized name stays
PointMapFirstWins(cards) ==
    LET key(i) == normalizeCardName(cards[i].name)
    IN  [n \in {key(i) : i \in 1..Len(cards)} |->
            cards[CHOOSE i \in 1..Len(cards) :
                    key(i) = n /\ \A j \in 1..(i - 1) : key(j) # n].points]

\* genesysPointMap: new Map(entries), a later entry replacing an earlier one
\* with the same normalized name
PointMapOf(cards) ==
    LET key(i) == normalizeCardName(cards[i].name)
    IN  [n \in {key(i) : i \in 1..Len(cards)} |->
            cards[CHOOSE i \in 1..Len(cards) :
                    key(i) = n /\ \A j \in (i + 1)..Len(cards) : key(j) # n].points]

\* toGroup, count pass: [id, count, firstIndex] in first-occurrence order
RECURSIVE CountPass(_, _, _)
CountPass(ids, index, counts) ==
    IF index >= Len(ids) THEN counts
    ELSE LET id == ids[index + 1]
             hit == {k \in 1..Len(counts) : counts[k].id = id}
         IN  IF hit # {}
             THEN CountPass(ids, index + 1,
                            [counts EXCEPT ![CHOOSE k \in hit : TRUE].count = @ + 1])
             ELSE CountPass(ids, index + 1,
                            Append(counts, [id |-> id, count |-> 1, firstIndex |-> index]))

\* toGroup, enrichment pass: the name a counted id is displayed under
DisplayName(id, details) ==
    LET hasInfo == id \in DOMAIN details
        fallbackName == IF id = Zero THEN TxtMissingId ELSE TxtCardHash \o ToDecimal(id)
        originalName == IF hasInfo /\ details[id].name # Undefined
                        THEN details[id].name ELSE fallbackName
        noName == ~hasInfo \/ details[id].name \in {Undefined, <<>>}
    IN  IF id = Zero /\ noName THEN fallbackName ELSE simplifyCardName(originalName)

\* an enrichment that takes a card worth 0 points for a card not in the list
RawGroupZeroIsAbsentOf(entry, zone, details, displayName, points) ==
    [id |-> entry.id, count |-> entry.count, zone |-> zone,
     name |-> displayName,
     type |-> IF entry.id \in DOMAIN details THEN details[entry.id].type ELSE Undefined,
     race |-> IF entry.id \in DOMAIN details THEN details[entry.id].race ELSE Undefined,
     level |-> IF entry.id \in DOMAIN details THEN details[entry.id].level ELSE NoLevel,
     orderIndex |-> entry.firstIndex,
     pointsPerCopy |-> points,
     totalPoints |-> points * entry.count,
     missingInfo |-> entry.id \notin DOMAIN details,
     notInList |-> points = 0]

RawGroupZeroIsAbsent(entry, zone, details, pointMap) ==
    RawGroupZeroIsAbsentOf(entry, zone, details, DisplayName(entry.id, details),
        IF normalizeCardName(DisplayName(entry.id, details)) \in DOMAIN pointMap
        THEN pointMap[normalizeCardName(DisplayName(entry.id, details))] ELSE 0)

\* toGroup, enrichment pass: the raw group of one counted id, from its
\* display name and the normalized display name. The fields the page only
\* displays (image, description, link) are left out.
RawGroupOf(entry, zone, details, pointMap, displayName, normalized) ==
    LET id == entry.id
        hasInfo == id \in DOMAIN details
        found == normalized \in DOMAIN pointMap
        points == IF found THEN pointMap[normalized] ELSE 0
        rawType == IF hasInfo THEN details[id].type ELSE Undefined
        rawRace == IF hasInfo THEN details[id].race ELSE Undefined
    IN  [id |-> id,
         count |-> entry.count,
         zone |-> zone,
         name |-> displayName,
         type |-> IF rawType # Undefined THEN rawType ELSE rawRace,
         race |-> rawRace,
         level |-> IF hasInfo THEN details[id].level ELSE NoLevel,
         orderIndex |-> entry.firstIndex,
         pointsPerCopy |-> points,
         totalPoints |-> points * entry.count,
         missingInfo |-> ~hasInfo,
         notInList |-> ~found]

RawGroup(entry, zone, details, pointMap) ==
    RawGroupOf(entry, zone, details, pointMap, DisplayName(entry.id, details),
               normalizeCardName(DisplayName(entry.id, details)))

Min(a, b) == IF a <= b THEN a ELSE b

\* a merge that adds the counts and leaves the stored total as it was
MergeIntoKeepTotal(existing, card) ==
    [existing EXCEPT !.count = @ + card.count]

\* a merge that adds the totals and leaves the stored count as it was
MergeIntoKeepCount(existing, card) ==
    [existing EXCEPT !.totalPoints = @ + card.totalPoints]

\* the merge of a raw group into the group already stored under its key
MergeInto(existing, card) ==
    [existing EXCEPT
        !.count = @ + card.count,
        !.totalPoints = @ + card.totalPoints,
        !.orderIndex = Min(@, card.orderIndex),
        !.type = IF @ \in {Undefined, <<>>} /\ card.type \notin {Undefined, <<>>}
                 THEN card.type ELSE @,
        !.race = IF @ \in {Undefined, <<>>} /\ card.race \notin {Undefined, <<>>}
                 THEN card.race ELSE @,
        !.level = IF @ \in {NoLevel, 0} /\ card.level \notin {NoLevel, 0}
                  THEN card.level ELSE @]

\* a merge pass that stores every raw group under a key of its own
MergePassById(rawGroups, merged) ==
    merged \o [k \in 1..Len(rawGroups) |->
                 [key |-> <<rawGroups[k].id, rawGroups[k].zone>>, group |-> rawGroups[k]]]

\* toGroup, merge pass: a Map from `${normalized name}::${zone}` to a group,
\* kept here as [key, group] entries in insertion order
RECURSIVE MergePass(_, _)

MergeAt(rawGroups, merged, card, key, hit) ==
    IF hit # {}
    THEN MergePass(Tail(rawGroups),
            [merged EXCEPT ![CHOOSE k \in hit : TRUE].group = MergeInto(@, card)])
    ELSE MergePass(Tail(rawGroups), Append(merged, [key |-> key, group |-> card]))

\* a key made of the display name as it is written
MergeKeyUnnormalized(card) == <<card.name, card.zone>>

MergeKey(card) == <<normalizeCardName(card.name), card.zone>>

MergePass(rawGroups, merged) ==
    IF rawGroups = <<>> THEN merged
    ELSE MergeAt(rawGroups, merged, Head(rawGroups), MergeKey(Head(rawGroups)),
                 {k \in 1..Len(merged) : merged[k].key = MergeKey(Head(rawGroups))})

\* monsterPriority
monsterPriority(typeLabel, zone) ==
    LET basePriority ==
            IF Includes(typeLabel, TxtNormal) /\ ~Includes(typeLabel, TxtPendulum) THEN 0
            ELSE IF /\ Includes(typeLabel, TxtEffect)
                    /\ ~Includes(typeLabel, TxtPendulum)
                    /\ ~Includes(typeLabel, TxtRitual) THEN 1
            ELSE IF Includes(typeLabel, TxtPendulum) THEN 2
            ELSE IF Includes(typeLabel, TxtRitual) THEN 3
            ELSE 4
    IN  IF zone = "extra"
        THEN IF Includes(typeLabel, TxtFusion) THEN 5
             ELSE IF Includes(typeLabel, TxtSynchro) THEN 6
             ELSE IF Includes(typeLabel, TxtXyz) THEN 7
             ELSE IF Includes(typeLabel, TxtLink) THEN 8
             ELSE 9
        ELSE basePriority

\* spellPriority
spellPriority(raceLabel) ==
    IF Includes(raceLabel, TxtNormal) THEN 0
    ELSE IF Includes(raceLabel, TxtQuick) THEN 1
    ELSE IF Includes(raceLabel, TxtRitual) THEN 2
    ELSE IF Includes(raceLabel, TxtField) THEN 3
    ELSE IF Includes(raceLabel, TxtContinuous) THEN 4
    ELSE IF Includes(raceLabel, TxtEquip) THEN 5
    ELSE 6

\* trapPriority
trapPriority(raceLabel) ==
    IF Includes(raceLabel, TxtCounter) THEN 0
    ELSE IF Includes(raceLabel, TxtContinuous) THEN 1
    ELSE 2

\* getSortMeta: the meta of a card from its lower-cased type, race and name,
\* its order and its level
SortMetaOf(card, zone, rawType, rawRace, name, order, level) ==
    IF Includes(rawType, TxtMonster)
    THEN [priority |-> 0,
          sub |-> monsterPriority(rawType \o <<ChSpace>> \o rawRace, zone),
          level |-> level,
          sortByLevel |-> ~(Includes(rawType, TxtLink) \/ Includes(rawType, TxtXyz)),
          name |-> name, order |-> order]
    ELSE IF Includes(rawType, TxtSpell)
    THEN [priority |-> 1, sub |-> spellPriority(rawRace), level |-> 0,
          sortByLevel |-> FALSE, name |-> name, order |-> order]
    ELSE IF Includes(rawType, TxtTrap)
    THEN [priority |-> 2, sub |-> trapPriority(rawRace), level |-> 0,
          sortByLevel |-> FALSE, name |-> name, order |-> order]
    ELSE [priority |-> 4, sub |-> 0, level |-> level,
          sortByLevel |-> FALSE, name |-> name, order |-> order]

getSortMeta(card, zone) ==
    SortMetaOf(card, zone, toLowerCase(OrEmpty(card.type)), toLowerCase(OrEmpty(card.race)),
               toLowerCase(card.name), card.orderIndex,
               IF card.level = NoLevel THEN 0 ELSE card.level)

\* compareCards with the lower level first
CompareMetaLevelAscending(mode, pointDiff, totalDiff, metaA, metaB, nameCompare) ==
    IF mode = "points" /\ pointDiff # 0 THEN pointDiff
    ELSE IF mode = "points" /\ totalDiff # 0 THEN totalDiff
    ELSE IF metaA.priority # metaB.priority THEN metaA.priority - metaB.priority
    ELSE IF metaA.sub # metaB.sub THEN metaA.sub - metaB.sub
    ELSE IF metaA.sortByLevel /\ metaB.sortByLevel /\ metaA.level # metaB.level
         THEN metaA.level - metaB.level
    ELSE IF nameCompare # 0 THEN nameCompare
    ELSE metaA.order - metaB.order

\* compareCards with the total of the group before its points per copy
CompareMetaTotalFirst(mode, pointDiff, totalDiff, metaA, metaB, nameCompare) ==
    IF mode = "points" /\ totalDiff # 0 THEN totalDiff
    ELSE IF mode = "points" /\ pointDiff # 0 THEN pointDiff
    ELSE IF metaA.priority # metaB.priority THEN metaA.priority - metaB.priority
    ELSE IF metaA.sub # metaB.sub THEN metaA.sub - metaB.sub
    ELSE IF metaA.sortByLevel /\ metaB.sortByLevel /\ metaA.level # metaB.level
         THEN metaB.level - metaA.level
    ELSE IF nameCompare # 0 THEN nameCompare
    ELSE metaA.order - metaB.order

\* compareCards(zone)(a, b) under the zone's sort mode: negative when a sorts
\* before b. nameCompare is metaA.name.localeCompare(metaB.name).
CompareMeta(mode, pointDiff, totalDiff, metaA, metaB, nameCompare) ==
    IF mode = "points" /\ pointDiff # 0 THEN pointDiff
    ELSE IF mode = "points" /\ totalDiff # 0 THEN totalDiff
    ELSE IF metaA.priority # metaB.priority THEN metaA.priority - metaB.priority
    ELSE IF metaA.sub # metaB.sub THEN metaA.sub - metaB.sub
    ELSE IF metaA.sortByLevel /\ metaB.sortByLevel /\ metaA.level # metaB.level
         THEN metaB.level - metaA.level
    ELSE IF nameCompare # 0 THEN nameCompare
    ELSE metaA.order - metaB.order

compareCards(zone, mode, a, b) ==
    CompareMeta(mode, b.pointsPerCopy - a.pointsPerCopy, b.totalPoints - a.totalPoints,
                getSortMeta(a, zone), getSortMeta(b, zone),
                localeCompare(toLowerCase(a.name), toLowerCase(b.name)))

\* Array.prototype.sort(compareCards(zone)): a stable sort, each card inserted
\* before the first sorted card that compares after it
RECURSIVE SortGroups(_, _, _)

InsertAt(rest, card, at) ==
    SubSeq(rest, 1, at - 1) \o <<card>> \o SubSeq(rest, at, Len(rest))

InsertBefore(rest, card, after) ==
    InsertAt(rest, card, IF after = {} THEN Len(rest) + 1
                         ELSE CHOOSE k \in after : \A j \in after : k <= j)

InsertSorted(rest, card, zone, mode) ==
    InsertBefore(rest, card, {k \in 1..Len(rest) : compareCards(zone, mode, rest[k], card) > 0})

SortGroups(groups, zone, mode) ==
    IF groups = <<>> THEN <<>>
    ELSE InsertSorted(SortGroups(SubSeq(groups, 1, Len(groups) - 1), zone, mode),
                      groups[Len(groups)], zone, mode)

\* toGroup(ids, zone)
RawGroups(counts, zone, details, pointMap) ==
    [k \in 1..Len(counts) |-> RawGroup(counts[k], zone, details, pointMap)]

MergedValues(merged) == [k \in 1..Len(merged) |-> merged[k].group]

toGroup(ids, zone, details, pointMap, mode) ==
    SortGroups(
        MergedValues(MergePass(RawGroups(CountPass(ids, 0, <<>>), zone, details, pointMap), <<>>)),
        zone, mode)

\* the deckGroups memo: null when has is FALSE
GroupsWith(memo, details, pointMap, sortMode) ==
    IF ~memo.hasDeck
    THEN [has |-> FALSE, main |-> <<>>, extra |-> <<>>, side |-> <<>>]
    ELSE [has |-> TRUE,
          main |-> toGroup(memo.deck.main, "main", details, pointMap, sortMode["main"]),
          extra |-> toGroup(memo.deck.extra, "extra", details, pointMap, sortMode["extra"]),
          side |-> toGroup(memo.deck.side, "side", details, pointMap, sortMode["side"])]

DeckGroups(memo, details, cards, sortMode) ==
    GroupsWith(memo, details, PointMapOf(cards), sortMode)

RECURSIVE SumTotalPoints(_)
SumTotalPoints(groups) ==
    IF groups = <<>> THEN 0 ELSE Head(groups).totalPoints + SumTotalPoints(Tail(groups))

\* the totalPoints memo
TotalPoints(groups) ==
    IF ~groups.has THEN 0
    ELSE SumTotalPoints(groups.main \o groups.extra \o groups.side)

\* the totalPoints the page shows
totalPoints == TotalPoints(deckGroups)

---------------------------------------------------------------------------
(* Inputs of the library caller.                                            *)

\* every sequence over S of length at most n
SeqsUpTo(S, n) == UNION {[1..k -> S] : k \in 0..n}

\* every deck of at most n cards over S: a flat list cut in three
DecksUpTo(S, n) ==
    {[main |-> SubSeq(flat, 1, i), extra |-> SubSeq(flat, i + 1, j),
      side |-> SubSeq(flat, j + 1, Len(flat))] :
        <<flat, i, j>> \in {t \in SeqsUpTo(S, n) \X (0..n) \X (0..n) :
                                t[2] <= t[3] /\ t[3] <= Len(t[1])}}

\* card ids handed to the codec: the placeholder 0, a small id, an id above
\* 2^31 with four different bytes, and the largest id
CodecIds == {Zero, U32(1), <<32768, 258>>, <<65535, 65535>>}

CodecDecks == DecksUpTo(CodecIds, MaxCodecCards)

\* 'ydke://AQAAAA==!!!'
ScenarioYdke == YdkeMarker \o <<65, 81, 65, 65, 65, 65, 61, 61, 33, 33, 33>>

\* deck codes pasted as text
PastedCodes == {ScenarioYdke}

\* the deck codes whose variants are parsed
MaxVariantCards == 1
VariantCodes ==
    {buildYdke(d.main, d.extra, d.side) : d \in DecksUpTo(CodecIds, MaxVariantCards)}
    \cup {ScenarioYdke}

\* s with the white-space character c put in after its first i characters
WithSpaceAt(s, i, c) == SubSeq(s, 1, i) \o <<c>> \o SubSeq(s, i + 1, Len(s))

\* 'YDKE://' and 'Ydke://'
UpperMarker == <<89, 68, 75, 69, 58, 47, 47>>
MixedMarker == <<89, 100, 107, 101, 58, 47, 47>>

\* the variants of a deck code s that starts with 'ydke://': the prefix in
\* another letter case, no prefix, a space or a line feed added anywhere
VariantsOf(s) ==
    {UpperMarker \o SliceFrom(s, 7), MixedMarker \o SliceFrom(s, 7), SliceFrom(s, 7)}
    \cup {WithSpaceAt(s, i, c) : i \in 0..Len(s), c \in {ChSpace, 10}}

\* the texts handed to parseYdke: up to MaxTextLen characters out of space,
\* line feed, '!' and 'A', bare or after the scheme prefix
MaxTextLen == 3
TextUnits == {ChSpace, 10, ChBang, 65}
TextInputs ==
    SeqsUpTo(TextUnits, MaxTextLen)
    \cup {YdkeMarker \o t : t \in SeqsUpTo(TextUnits, MaxTextLen)}

\* names handed to normalizeCardName: letters of both cases, a space, the
\* apostrophe, and the code units of the mis-encoded apostrophe in both cases
NameUnits == {ChSpace, ChApostrophe, 65, 97, 194, 226, 8364, 8482}

RawNames == SeqsUpTo(NameUnits, MaxNameLen)

NoDeck == [given |-> FALSE, main |-> <<>>, extra |-> <<>>, side |-> <<>>]
NoParse == Thrown("not called")
NoText == [error |-> "not called", text |-> <<>>]

NoTextInput == textIn = <<>> /\ parsedText = NoParse

LibIdle ==
    /\ pc = "idle"
    /\ codecIn = NoDeck
    /\ ydke = <<>>
    /\ parsed = NoParse
    /\ rebuilt = <<>>
    /\ token = <<>>
    /\ decoded = NoText
    /\ rawName = <<>>
    /\ norm1 = <<>>
    /\ norm2 = <<>>
    /\ NoTextInput

---------------------------------------------------------------------------
(* The caller of the deck codec: buildYdke, parseYdke, buildYdke again.     *)

CallBuildYdke ==
    /\ pc = "build"
    /\ ydke' = buildYdke(codecIn.main, codecIn.extra, codecIn.side)
    /\ pc' = "parse"
    /\ UNCHANGED <<appVars, textVars, codecIn, parsed, rebuilt, token, decoded, rawName, norm1, norm2>>

CallParseYdke ==
    /\ pc = "parse"
    /\ parsed' = parseYdke(ydke)
    /\ pc' = IF parsed'.error = "" THEN "rebuild" ELSE "done"
    /\ UNCHANGED <<appVars, textVars, codecIn, ydke, rebuilt, token, decoded, rawName, norm1, norm2>>

CallRebuildYdke ==
    /\ pc = "rebuild"
    /\ rebuilt' = buildYdke(parsed.main, parsed.extra, parsed.side)
    /\ pc' = "done"
    /\ UNCHANGED <<appVars, textVars, codecIn, ydke, parsed, token, decoded, rawName, norm1, norm2>>

(* The caller of parseYdke on a variant of a deck code, before the same      *)
(* caller parses the deck code itself and builds it again.                  *)

CallParseVariant ==
    /\ pc = "variant"
    /\ parsedText' = parseYdke(textIn)
    /\ pc' = "parse"
    /\ UNCHANGED <<appVars, textIn, codecIn, ydke, parsed, rebuilt, token, decoded,
                   rawName, norm1, norm2>>

(* The caller of parseYdke on any text.                                      *)

CallParseText ==
    /\ pc = "text"
    /\ parsedText' = parseYdke(textIn)
    /\ pc' = "done"
    /\ UNCHANGED <<appVars, textIn, codecIn, ydke, parsed, rebuilt, token, decoded,
                   rawName, norm1, norm2>>

(* The caller of the share token: encodeDeckHash, decodeDeckHash.           *)

CallEncodeDeckHash ==
    /\ pc = "encode"
    /\ token' = encodeDeckHash(ydke)
    /\ pc' = "decode"
    /\ UNCHANGED <<appVars, textVars, codecIn, ydke, parsed, rebuilt, decoded, rawName, norm1, norm2>>

CallDecodeDeckHash ==
    /\ pc = "decode"
    /\ decoded' = decodeDeckHash(token)
    /\ pc' = "done"
    /\ UNCHANGED <<appVars, textVars, codecIn, ydke, parsed, rebuilt, token, rawName, norm1, norm2>>

(* The caller of normalizeCardName, once and on its own result.             *)

CallNormalize ==
    /\ pc = "normalize"
    /\ norm1' = normalizeCardName(rawName)
    /\ pc' = "renormalize"
    /\ UNCHANGED <<appVars, textVars, codecIn, ydke, parsed, rebuilt, token, decoded, rawName, norm2>>

CallNormalizeAgain ==
    /\ pc = "renormalize"
    /\ norm2' = normalizeCardName(norm1)
    /\ pc' = "done"
    /\ UNCHANGED <<appVars, textVars, codecIn, ydke, parsed, rebuilt, token, decoded, rawName, norm1>>

---------------------------------------------------------------------------
(* The App component before any input (the useState initial values).        *)

Zones == {"main", "extra", "side"}
NoContext == [open |-> FALSE, zone |-> "main", cardName |-> <<>>]
NoToast == [kind |-> "none", limit |-> 0]
EmptyTable == <<>>

\* DEFAULT_POINT_CAP
DEFAULT_POINT_CAP == 100

\* the flag without the test of the cap's sign
OverCapAnyCap(cap, total) == total > cap

\* const cardsOverCap = pointCap > 0 && totalPoints > pointCap
OverCap(cap, total) == cap > 0 /\ total > cap

\* a render after the deckGroups memo changed and the cap did not
CapRendered ==
    /\ pointCap' = pointCap
    /\ cardsOverCap' = OverCap(pointCap, TotalPoints(deckGroups'))

\* encodeDeckHash of the trimmed field for a deck that parses, '' otherwise
ShareTokenOf(input) ==
    IF DeckMemo(input).hasDeck THEN encodeDeckHash(Trim(input)) ELSE <<>>

\* the dependencies of the two URL effects in a render: shareToken,
\* deckQueryParam ('' for an absent parameter) and isResultsView
DepsOf(memo, loc) ==
    [shareToken |-> memo,
     deckQueryParam |-> loc.deck,
     isResultsView |-> loc.pathname = "/results"]

HomeLocation == [pathname |-> "/", deck |-> <<>>]

DEFAULT_FOLDER_ID == <<102, 111, 108, 100, 101, 114, 45, 100, 101, 102, 97, 117, 108, 116>> \* 'folder-default'
DEFAULT_FOLDER_NAME == <<85, 110, 115, 111, 114, 116, 101, 100>> \* 'Unsorted'

\* createFolder(name, id, decks)
createFolder(name, id, decks) == [id |-> id, name |-> name, decks |-> decks]

\* ensureFolders(folders)
ensureFolders(folders) ==
    IF Len(folders) > 0 THEN folders
    ELSE <<createFolder(DEFAULT_FOLDER_NAME, DEFAULT_FOLDER_ID, <<>>)>>

\* no metadata lookup was started
NoLookup ==
    /\ lookup = "idle"
    /\ chunkCalls = <<>>
    /\ fetchedCards = <<>>
    /\ requestLog = <<>>

\* before the first commit no effect has run: dependencies no render has
NotMounted == [shareToken |-> Undefined, deckQueryParam |-> Undefined, isResultsView |-> FALSE]

\* the page at '/', its URL effects not run yet, and nothing in localStorage
HostStart ==
    /\ location = HomeLocation
    /\ committed = NotMounted
    /\ committedAt = <<Undefined, location>>
    /\ savedFolders = ensureFolders(<<>>)
    /\ NoLookup

AppStart ==
    /\ deckInput = <<>>
    /\ cardDetails = EmptyTable
    /\ isFetchingCards = FALSE
    /\ cardError = ""
    /\ fetches = {}
    /\ cardSortMode = [z \in Zones |-> "points"]
    /\ deck = DeckMemo(deckInput)
    /\ deckGroups = DeckGroups(deck, cardDetails, <<>>, cardSortMode)
    /\ pointCap = DEFAULT_POINT_CAP
    /\ cardsOverCap = FALSE
    /\ missingCardContext = NoContext
    /\ toast = NoToast
    /\ selectedCards = <<>>
    /\ HostStart

---------------------------------------------------------------------------
(* The card metadata the API serves and the point lists of the build.       *)

MaxAggCards == 3

NameCardA == <<67, 97, 114, 100, 32, 65>> \* "Card A"
NameCardAAlt == <<67, 65, 82, 68, 32, 32, 65, 32, 40, 65, 108, 116, 32, 65, 114, 116, 41>> \* "CARD  A (Alt Art)"
NameCardB == <<67, 97, 114, 100, 32, 66>> \* "Card B"
TypeEffectMonster == <<69, 102, 102, 101, 99, 116, 32, 77, 111, 110, 115, 116, 101, 114>> \* "Effect Monster"
TypeSpellCard == <<83, 112, 101, 108, 108, 32, 67, 97, 114, 100>> \* "Spell Card"
RaceWarrior == <<87, 97, 114, 114, 105, 111, 114>> \* "Warrior"
RaceQuickPlay == <<81, 117, 105, 99, 107, 45, 80, 108, 97, 121>> \* "Quick-Play"
ListNameCardAUpper == <<67, 65, 82, 68, 32, 32, 65>> \* "CARD  A"

IdCardA == U32(5)
IdCardB == U32(7)
IdCardAAlt == U32(9)

\* cards for the sort: two fusion monsters of levels 8 and 10, an xyz monster,
\* a counter trap, and an id the API does not know
NameFusionB == <<66>> \* "B"
NameXyzC == <<67>> \* "C"
NameFusionD == <<68>> \* "D"
NameTrapT == <<84, 114, 97, 112, 32, 84>> \* "Trap T"
TypeFusionMonster == <<70, 117, 115, 105, 111, 110, 32, 77, 111, 110, 115, 116, 101, 114>> \* "Fusion Monster"
TypeXyzMonster == <<88, 89, 90, 32, 77, 111, 110, 115, 116, 101, 114>> \* "XYZ Monster"
TypeTrapCard == <<84, 114, 97, 112, 32, 67, 97, 114, 100>> \* "Trap Card"
RaceCounter == <<67, 111, 117, 110, 116, 101, 114>> \* "Counter"

IdFusionB == U32(11)
IdXyzC == U32(13)
IdFusionD == U32(15)
IdTrapT == U32(17)
IdUnknown == U32(19)

\* cards for the blocked list: a pendulum monster, a skill card served under
\* the same name with a parenthetical suffix, and a link monster
NamePendP == <<80, 101, 110, 100, 32, 80>> \* "Pend P"
NamePendPSkill == <<80, 101, 110, 100, 32, 80, 32, 40, 83, 107, 105, 108, 108, 32, 67, 97, 114, 100, 41>> \* "Pend P (Skill Card)"
NameLinkL == <<76, 105, 110, 107, 32, 76>> \* "Link L"
TypePendulumMonster == <<80, 101, 110, 100, 117, 108, 117, 109, 32, 69, 102, 102, 101, 99, 116, 32, 77, 111, 110, 115, 116, 101, 114>> \* "Pendulum Effect Monster"
TypeSkillCard == <<83, 107, 105, 108, 108, 32, 67, 97, 114, 100>> \* "Skill Card"
TypeLinkMonster == <<76, 105, 110, 107, 32, 77, 111, 110, 115, 116, 101, 114>> \* "Link Monster"
RaceDragon == <<68, 114, 97, 103, 111, 110>> \* "Dragon"

IdPendP == U32(21)
IdPendPSkill == U32(23)
IdLinkL == U32(25)

\* what the API answers for an id it knows: adaptApiCard of the served card.
\* The alternate art of Card A is served under its own id, with a
\* parenthetical suffix and without type, race or level.
CardDb ==
    (IdCardA :> [name |-> NameCardA, type |-> TypeEffectMonster,
                 race |-> RaceWarrior, level |-> 4])
    @@ (IdCardAAlt :> [name |-> NameCardAAlt, type |-> Undefined,
                       race |-> Undefined, level |-> NoLevel])
    @@ (IdCardB :> [name |-> NameCardB, type |-> TypeSpellCard,
                    race |-> RaceQuickPlay, level |-> NoLevel])
    @@ (IdFusionB :> [name |-> NameFusionB, type |-> TypeFusionMonster,
                      race |-> RaceWarrior, level |-> 8])
    @@ (IdXyzC :> [name |-> NameXyzC, type |-> TypeXyzMonster,
                   race |-> RaceWarrior, level |-> 4])
    @@ (IdFusionD :> [name |-> NameFusionD, type |-> TypeFusionMonster,
                      race |-> RaceWarrior, level |-> 10])
    @@ (IdTrapT :> [name |-> NameTrapT, type |-> TypeTrapCard,
                    race |-> RaceCounter, level |-> NoLevel])
    @@ (IdPendP :> [name |-> NamePendP, type |-> TypePendulumMonster,
                    race |-> RaceDragon, level |-> 4])
    @@ (IdPendPSkill :> [name |-> NamePendPSkill, type |-> TypeSkillCard,
                         race |-> Undefined, level |-> NoLevel])
    @@ (IdLinkL :> [name |-> NameLinkL, type |-> TypeLinkMonster,
                    race |-> RaceDragon, level |-> NoLevel])

\* point lists: both cards listed; Card B listed with 0 points and Card A not
\* listed; two entries whose names normalize to the same key
PointListBoth ==
    <<[name |-> NameCardA, points |-> 10], [name |-> NameCardB, points |-> 3]>>
PointListZero == <<[name |-> NameCardB, points |-> 0]>>
PointListCollision ==
    <<[name |-> NameCardA, points |-> 4], [name |-> ListNameCardAUpper, points |-> 7]>>

\* the point list of the sort: B and Card B are worth 6, D is worth 10, the
\* others are not listed
PointListSort ==
    <<[name |-> NameFusionB, points |-> 6], [name |-> NameFusionD, points |-> 10],
      [name |-> NameCardB, points |-> 6]>>

PointLists == {PointListBoth, PointListZero, PointListCollision}

\* the ids of the decks handed to the aggregation
AggIds == {Zero, IdCardA, IdCardB, IdCardAAlt}

\* main = [5, 5, 5, 7]
ScenarioDeck ==
    [main |-> <<IdCardA, IdCardA, IdCardA, IdCardB>>, extra |-> <<>>, side |-> <<>>]

\* every main section of at most MaxAggCards cards, beside an extra section
\* and a side section that are both empty or hold one card each
AggDecks ==
    {[main |-> m, extra |-> rest.extra, side |-> rest.side] :
        m \in SeqsUpTo(AggIds, MaxAggCards),
        rest \in {[extra |-> <<>>, side |-> <<>>],
                  [extra |-> <<IdCardAAlt>>, side |-> <<IdCardB>>]}}
    \cup {ScenarioDeck}

\* fetchCardsByIds(ids): the cards the API served, by id; an id the API does
\* not answer for is absent
FetchOutcomes(ids) ==
    {[id \in known |-> CardDb[id]] : known \in SUBSET (ids \cap DOMAIN CardDb)}

---------------------------------------------------------------------------
(* The saved decks of App.tsx: folders of deck entries.                     *)
(* A folder is [id, name, decks] and an entry is [id, name, deck]; savedAt  *)
(* and summary of an entry are left out.                                    *)

SAVED_DECK_LIMIT == 200

UntitledDeck == <<85, 110, 116, 105, 116, 108, 101, 100, 32, 100, 101, 99, 107>> \* 'Untitled deck'

\* `folder-${Date.now().toString(36)}-${Math.random().toString(36).slice(2, 8)}`,
\* by the number n that stands for the time and the random part
generateFolderId(n) == <<102, 111, 108, 100, 101, 114, 45>> \o <<48 + n>>

\* `${Date.now().toString(36)}-${Math.random().toString(36).slice(2, 8)}`
generateDeckId(n) == <<48 + n, 45>>

FolderIdsOf(folders) == {folders[i].id : i \in 1..Len(folders)}

DeckIdsOf(folders) ==
    UNION {{folders[i].decks[k].id : k \in 1..Len(folders[i].decks)} : i \in 1..Len(folders)}

\* the id generateFolderId returns: one that is not among taken (the time
\* and the random part of two calls differ)
FreshFolderId(taken) ==
    generateFolderId(CHOOSE n \in 0..9 :
        /\ generateFolderId(n) \notin taken
        /\ \A k \in 0..(n - 1) : generateFolderId(k) \in taken)

FreshDeckId(taken) ==
    generateDeckId(CHOOSE n \in 0..9 :
        /\ generateDeckId(n) \notin taken
        /\ \A k \in 0..(n - 1) : generateDeckId(k) \in taken)

\* folders.findIndex((folder) => folder.id === id) + 1, 0 for -1
RECURSIVE FindFolder(_, _, _)
FindFolder(folders, id, i) ==
    IF i > Len(folders) THEN 0
    ELSE IF folders[i].id = id THEN i
    ELSE FindFolder(folders, id, i + 1)

\* decks.findIndex((deck) => deck.id === id) + 1, 0 for -1
RECURSIVE FindDeck(_, _, _)
FindDeck(decks, id, i) ==
    IF i > Len(decks) THEN 0
    ELSE IF decks[i].id = id THEN i
    ELSE FindDeck(decks, id, i + 1)

\* array.filter(keep) for the entries whose id is not id
RECURSIVE WithoutId(_, _)
WithoutId(entries, id) ==
    IF entries = <<>> THEN <<>>
    ELSE (IF Head(entries).id = id THEN <<>> ELSE <<Head(entries)>>)
         \o WithoutId(Tail(entries), id)

\* array.slice(0, n)
Take(s, n) == SubSeq(s, 1, Min(n, Len(s)))

\* the array without the entry at position i (from 1)
RemoveAt(s, i) == SubSeq(s, 1, i - 1) \o SubSeq(s, i + 1, Len(s))

\* array.splice(at, 0, e) with at counted from 0
Splice(s, at, e) == SubSeq(s, 1, at) \o <<e>> \o SubSeq(s, at + 1, Len(s))

Max(a, b) == IF a >= b THEN a ELSE b

\* arrayMove(array, from, to) of @dnd-kit/sortable, from and to from 0
arrayMove(array, from, to) == Splice(RemoveAt(array, from + 1), to, array[from + 1])

\* setSavedFoldersAndPersist(producer), by the folders the producer returned
\* for ensureFolders(prev): the state set and persisted
Persisted(produced) == ensureFolders(produced)

\* the producer of handleSaveDeck
SaveProducer(prev, entry, folderId) ==
    LET found == IF folderId = Undefined \/ folderId = <<>> THEN 0
                 ELSE FindFolder(prev, folderId, 1)
        next == IF found = 0 /\ Len(prev) = 0
                THEN <<createFolder(DEFAULT_FOLDER_NAME, DEFAULT_FOLDER_ID, <<>>)>>
                ELSE prev
        targetIndex == IF found = 0 THEN 1 ELSE found
    IN  [next EXCEPT ![targetIndex].decks = Take(<<entry>> \o @, SAVED_DECK_LIMIT)]

\* the producer of handleRenameSavedDeck
RenameProducer(prev, folderId, deckId, trimmed) ==
    [i \in 1..Len(prev) |->
        IF prev[i].id # folderId THEN prev[i]
        ELSE [prev[i] EXCEPT !.decks =
                [k \in 1..Len(prev[i].decks) |->
                    IF prev[i].decks[k].id # deckId THEN prev[i].decks[k]
                    ELSE [prev[i].decks[k] EXCEPT !.name = trimmed]]]]

\* the producer of handleDeleteSavedDeck
DeleteDeckProducer(prev, folderId, deckId) ==
    [i \in 1..Len(prev) |->
        IF prev[i].id # folderId THEN prev[i]
        ELSE [prev[i] EXCEPT !.decks = WithoutId(@, deckId)]]

\* the producer of handleMoveSavedDeck, for the positions of the two folders
\* and of the deck (each from 1, 0 when not found)
MoveProducerAt(prev, source, target, sourceIndex, targetIndex) ==
    IF source = 0 \/ target = 0 THEN prev
    ELSE IF sourceIndex = 0 THEN prev
    ELSE IF prev[source].id = prev[target].id
    THEN [prev EXCEPT ![source].decks =
            arrayMove(@, sourceIndex - 1, Max(0, Min(targetIndex, Len(@) - 1)))]
    ELSE [prev EXCEPT
            ![source].decks = RemoveAt(@, sourceIndex),
            ![target].decks = Splice(@, Max(0, Min(targetIndex, Len(@))),
                                     prev[source].decks[sourceIndex])]

MoveProducer(prev, sourceFolderId, deckId, targetFolderId, targetIndex) ==
    MoveProducerAt(prev, FindFolder(prev, sourceFolderId, 1), FindFolder(prev, targetFolderId, 1),
                   IF FindFolder(prev, sourceFolderId, 1) = 0 THEN 0
                   ELSE FindDeck(prev[FindFolder(prev, sourceFolderId, 1)].decks, deckId, 1),
                   targetIndex)

\* prev.some((folder) => folder.name.toLowerCase() === trimmed.toLowerCase())
NameTaken(prev, trimmed) ==
    \E i \in 1..Len(prev) : toLowerCase(prev[i].name) = toLowerCase(trimmed)

\* the producer of handleCreateFolder
CreateProducer(prev, trimmed) ==
    IF NameTaken(prev, trimmed) THEN prev
    ELSE Append(prev, createFolder(trimmed, FreshFolderId(FolderIdsOf(prev)), <<>>))

\* a delete-folder that removes the folder whatever it holds
DeleteFolderAnyway(prev, folderId) == WithoutId(prev, folderId)

\* the producer of handleDeleteFolder
DeleteFolderProducer(prev, folderId) ==
    IF Len(prev) <= 1 THEN prev
    ELSE IF FindFolder(prev, folderId, 1) = 0 THEN prev
    ELSE IF Len(prev[FindFolder(prev, folderId, 1)].decks) > 0 THEN prev
    ELSE WithoutId(prev, folderId)

\* normalizeDeckEntry over the decks of a file: an entry without a deck text
\* is dropped, an id and a name are trimmed, or generated and 'Untitled deck'
RECURSIVE normalizeDeckEntries(_, _)
normalizeDeckEntries(raw, taken) ==
    IF raw = <<>> THEN <<>>
    ELSE IF Trim(Head(raw).deck) = <<>> THEN normalizeDeckEntries(Tail(raw), taken)
    ELSE LET id == IF Trim(Head(raw).id) # <<>> THEN Trim(Head(raw).id)
                   ELSE FreshDeckId(taken)
         IN  <<[id |-> id,
                name |-> IF Trim(Head(raw).name) # <<>> THEN Trim(Head(raw).name)
                         ELSE UntitledDeck,
                deck |-> Trim(Head(raw).deck)]>>
             \o normalizeDeckEntries(Tail(raw), taken \cup {id})

\* normalizeFolders(raw, false) for a file with a folders array
RECURSIVE normalizeFolderList(_, _)
normalizeFolderList(raw, taken) ==
    IF raw = <<>> THEN <<>>
    ELSE LET id == IF Trim(Head(raw).id) # <<>> THEN Trim(Head(raw).id)
                   ELSE FreshFolderId(taken)
         IN  <<createFolder(IF Trim(Head(raw).name) # <<>> THEN Trim(Head(raw).name)
                            ELSE DEFAULT_FOLDER_NAME,
                            id, normalizeDeckEntries(Head(raw).decks, {}))>>
             \o normalizeFolderList(Tail(raw), taken \cup {id})

\* normalizeFolders(raw, false): a file is [folders] or, in the older
\* format, [decks]
normalizeFolders(raw) ==
    IF "folders" \in DOMAIN raw THEN normalizeFolderList(raw.folders, {})
    ELSE IF "decks" \in DOMAIN raw
    THEN <<createFolder(DEFAULT_FOLDER_NAME, DEFAULT_FOLDER_ID,
                        normalizeDeckEntries(raw.decks, {}))>>
    ELSE <<>>

\* the producer of handleImportSavedDecks: every imported folder is added
\* under its id, or under a generated one when the id is taken
RECURSIVE ImportProducer(_, _, _)
ImportProducer(merged, importedFolders, existingIds) ==
    IF importedFolders = <<>> THEN merged
    ELSE LET newId == IF Head(importedFolders).id \in existingIds
                      THEN FreshFolderId(existingIds)
                      ELSE Head(importedFolders).id
         IN  ImportProducer(Append(merged, [Head(importedFolders) EXCEPT !.id = newId]),
                            Tail(importedFolders), existingIds \cup {newId})

RECURSIVE TotalDecks(_)
TotalDecks(folders) ==
    IF folders = <<>> THEN 0 ELSE Len(Head(folders).decks) + TotalDecks(Tail(folders))

ToastSuccess == [kind |-> "success", limit |-> 0]
ToastError == [kind |-> "error", limit |-> 0]

\* what a saved-deck handler leaves alone
SavedOnly ==
    UNCHANGED <<deckInput, cardDetails, fetchVars, cardSortMode, deck, deckGroups, capVars,
                missingCardContext, selectedCards, genesysCards, routeVars, lookupVars, libVars>>

\* handleSaveDeck(name, folderId)
handleSaveDeck(name, folderId) ==
    /\ IF Trim(deckInput) = <<>>
       THEN /\ toast' = ToastError
            /\ UNCHANGED savedFolders
       ELSE /\ savedFolders' = Persisted(SaveProducer(ensureFolders(savedFolders),
                    [id |-> FreshDeckId(DeckIdsOf(savedFolders)),
                     name |-> IF Trim(name) # <<>> THEN Trim(name) ELSE UntitledDeck,
                     deck |-> Trim(deckInput)], folderId))
            /\ toast' = ToastSuccess
    /\ SavedOnly

\* handleRenameSavedDeck(folderId, deckId, nextName); renamed is read when
\* the handler returns, after the updater ran (eager) or before
handleRenameSavedDeck(folderId, deckId, nextName, eager) ==
    /\ IF Trim(nextName) = <<>>
       THEN /\ toast' = ToastError
            /\ UNCHANGED savedFolders
       ELSE /\ savedFolders' = Persisted(RenameProducer(ensureFolders(savedFolders),
                                                       folderId, deckId, Trim(nextName)))
            /\ toast' = IF eager /\ savedFolders' # savedFolders THEN ToastSuccess ELSE ToastError
    /\ SavedOnly

\* handleDeleteSavedDeck(folderId, deckId)
handleDeleteSavedDeck(folderId, deckId, eager) ==
    /\ savedFolders' = Persisted(DeleteDeckProducer(ensureFolders(savedFolders), folderId, deckId))
    /\ toast' = IF eager /\ savedFolders' # savedFolders THEN ToastSuccess ELSE ToastError
    /\ SavedOnly

\* handleMoveSavedDeck(sourceFolderId, deckId, targetFolderId, targetIndex)
handleMoveSavedDeck(sourceFolderId, deckId, targetFolderId, targetIndex) ==
    /\ savedFolders' = Persisted(MoveProducer(ensureFolders(savedFolders), sourceFolderId,
                                             deckId, targetFolderId, targetIndex))
    /\ UNCHANGED toast
    /\ SavedOnly

\* handleCreateFolder(name)
handleCreateFolder(name, eager) ==
    /\ IF Trim(name) = <<>>
       THEN /\ toast' = ToastError
            /\ UNCHANGED savedFolders
       ELSE /\ savedFolders' = Persisted(CreateProducer(ensureFolders(savedFolders), Trim(name)))
            /\ toast' = IF savedFolders' = savedFolders THEN ToastError
                        ELSE IF eager THEN ToastSuccess ELSE toast
    /\ SavedOnly

\* handleDeleteFolder(folderId)
handleDeleteFolder(folderId, eager) ==
    /\ savedFolders' = Persisted(DeleteFolderProducer(ensureFolders(savedFolders), folderId))
    /\ toast' = IF savedFolders' = savedFolders THEN ToastError
                ELSE IF eager THEN ToastSuccess ELSE toast
    /\ SavedOnly

\* handleImportSavedDecks(file), the file parsed as JSON
handleImportSavedDecks(raw) ==
    /\ IF TotalDecks(normalizeFolders(raw)) = 0
       THEN /\ toast' = ToastError
            /\ UNCHANGED savedFolders
       ELSE /\ savedFolders' = Persisted(ImportProducer(ensureFolders(savedFolders),
                    normalizeFolders(raw), FolderIdsOf(ensureFolders(savedFolders))))
            /\ toast' = ToastSuccess
    /\ SavedOnly

---------------------------------------------------------------------------
(* fetchCardsByIds and fetchChunk of lib/ygoprodeck.ts.                     *)

CHUNK_SIZE == 40

\* Array.from(new Set(ids.filter((id) => id > 0))): the ids above 0, each
\* once, in the order of their first occurrence
RECURSIVE UniquePositive(_, _)
UniquePositive(ids, seen) ==
    IF ids = <<>> THEN <<>>
    ELSE IF Head(ids) = Zero \/ Head(ids) \in seen
         THEN UniquePositive(Tail(ids), seen)
         ELSE <<Head(ids)>> \o UniquePositive(Tail(ids), seen \cup {Head(ids)})

\* the chunks loop: unique.slice(i, i + CHUNK_SIZE) for i = 0, CHUNK_SIZE, ...
RECURSIVE ChunksOf(_)
ChunksOf(unique) ==
    IF unique = <<>> THEN <<>>
    ELSE <<SubSeq(unique, 1, Min(CHUNK_SIZE, Len(unique)))>>
         \o ChunksOf(SubSeq(unique, Min(CHUNK_SIZE, Len(unique)) + 1, Len(unique)))

\* Math.ceil(chunk.length / 2)
Midpoint(chunk) == (Len(chunk) + 1) \div 2

\* chunk.slice(0, midpoint) and chunk.slice(midpoint)
Halves(chunk) ==
    <<SubSeq(chunk, 1, Midpoint(chunk)), SubSeq(chunk, Midpoint(chunk) + 1, Len(chunk))>>

\* what the server can answer a request with: response.ok with a payload,
\* response.ok false, or fetch() / response.json() throwing
Responses == {"ok", "notOk", "threw"}

\* the cards of a payload: those ids of the chunk the server serves
RECURSIVE Served(_, _)
Served(chunk, served) ==
    IF chunk = <<>> THEN <<>>
    ELSE (IF Head(chunk) \in served THEN <<Head(chunk)>> ELSE <<>>)
         \o Served(Tail(chunk), served)

\* a single-id request that is answered non-OK, thrown as an error
RefusedSingleThrows(chunk, response) ==
    Len(chunk) = 1 /\ response \in {"notOk", "threw"}

\* the throw of the catch block: the request of a single id threw
Rethrown(chunk, response) ==
    Len(chunk) = 1 /\ response = "threw"

\* one call of fetchChunk up to its return, its throw or its two recursive
\* calls: [cards, calls, threw]
fetchChunk(chunk, response, data) ==
    IF response = "ok"
    THEN [cards |-> data, calls |-> <<>>, threw |-> FALSE]
    ELSE IF Rethrown(chunk, response)
    THEN [cards |-> <<>>, calls |-> <<>>, threw |-> TRUE]
    ELSE IF Len(chunk) = 1
    THEN [cards |-> <<>>, calls |-> <<>>, threw |-> FALSE]
    ELSE [cards |-> <<>>, calls |-> Halves(chunk), threw |-> FALSE]

\* fetchCardsByIds(ids) up to its first request: no id above 0 resolves to {}
\* at once
StartLookup(ids) ==
    /\ lookup # "running"
    /\ chunkCalls' = ChunksOf(UniquePositive(ids, {}))
    /\ lookup' = IF chunkCalls' = <<>> THEN "resolved" ELSE "running"
    /\ fetchedCards' = <<>>
    /\ requestLog' = <<>>
    /\ UNCHANGED <<deckInput, cardDetails, fetchVars, cardSortMode, deck, deckGroups, capVars,
                   missingCardContext, toast, selectedCards, genesysCards, routeVars,
                   savedFolders, libVars>>

\* the call of fetchChunk that is next in call order makes its request and
\* the server answers: the call returns its cards, throws through every
\* caller, or makes its two recursive calls
RequestAnswered(call, response) ==
    /\ requestLog' = Append(requestLog, [chunk |-> Head(chunkCalls), response |-> response])
    /\ fetchedCards' = fetchedCards \o call.cards
    /\ chunkCalls' = IF call.threw THEN <<>> ELSE call.calls \o Tail(chunkCalls)
    /\ lookup' = IF call.threw THEN "rejected"
                 ELSE IF chunkCalls' = <<>> THEN "resolved" ELSE "running"

Request(response, served) ==
    /\ lookup = "running"
    /\ response = "ok" \/ served = {}
    /\ RequestAnswered(fetchChunk(Head(chunkCalls), response,
                                  Served(Head(chunkCalls), served)), response)
    /\ UNCHANGED <<deckInput, cardDetails, fetchVars, cardSortMode, deck, deckGroups, capVars,
                   missingCardContext, toast, selectedCards, genesysCards, routeVars,
                   savedFolders, libVars>>

---------------------------------------------------------------------------
(* The metadata fetch effect of App.tsx.                                    *)

\* a cleanup that leaves the closures of the fetches started before as they
\* are
NotCancelled(pending) == pending

\* the cleanup of the effect: cancelled = true in the closure of every
\* fetch started before
Cancelled(pending) == {[f EXCEPT !.cancelled = TRUE] : f \in pending}

\* the effect body run for a new deck, after the cleanup of the run before:
\* nothing to fetch clears the table, otherwise a fetch starts; both clear
\* cardError
FetchEffect(memo, details, pending) ==
    IF UniqueCardIds(memo) = {}
    THEN [cardDetails |-> EmptyTable, isFetchingCards |-> FALSE, cardError |-> "",
          fetches |-> Cancelled(pending)]
    ELSE [cardDetails |-> details, isFetchingCards |-> TRUE, cardError |-> "",
          fetches |-> Cancelled(pending)
                      \cup {[ids |-> UniqueCardIds(memo), cancelled |-> FALSE]}]

\* the effect when its dependencies did not change: it does not run
NoFetchEffect ==
    [cardDetails |-> cardDetails, isFetchingCards |-> isFetchingCards,
     cardError |-> cardError, fetches |-> fetches]

ErrFetch == "Unable to fetch card details."

\* fetchCardsByIds of a started fetch resolves: setCardDetails(fetched) and
\* setIsFetchingCards(false), each under if (!cancelled)
FetchCardsDone ==
    \E f \in fetches :
        /\ fetches' = fetches \ {f}
        /\ IF f.cancelled
           THEN UNCHANGED <<cardDetails, isFetchingCards, deckGroups, capVars>>
           ELSE /\ \E fetched \in FetchOutcomes(f.ids) : cardDetails' = fetched
                /\ isFetchingCards' = FALSE
                /\ deckGroups' = DeckGroups(deck, cardDetails', genesysCards, cardSortMode)
                /\ CapRendered
        /\ UNCHANGED <<deckInput, cardError, cardSortMode, deck, missingCardContext, toast,
                       selectedCards, hostVars, libVars>>

\* a rejection handled without the finally block: the message is set and
\* the loading flag is left as it is
FetchCardsFailedFlagStays ==
    \E f \in fetches :
        /\ fetches' = fetches \ {f}
        /\ IF f.cancelled THEN UNCHANGED cardError ELSE cardError' = ErrFetch
        /\ UNCHANGED <<deckInput, cardDetails, isFetchingCards, cardSortMode, deck, deckGroups,
                       capVars, missingCardContext, toast, selectedCards, hostVars, libVars>>

\* fetchCardsByIds of a started fetch rejects: setCardError(message) and
\* setIsFetchingCards(false), each under if (!cancelled)
FetchCardsFailed ==
    \E f \in fetches :
        /\ fetches' = fetches \ {f}
        /\ IF f.cancelled
           THEN UNCHANGED <<cardError, isFetchingCards>>
           ELSE cardError' = ErrFetch /\ isFetchingCards' = FALSE
        /\ UNCHANGED <<deckInput, cardDetails, cardSortMode, deck, deckGroups, capVars,
                       missingCardContext, toast, selectedCards, hostVars, libVars>>

\* onSortModeChange(zone, mode): the select of a section. The mode the zone
\* already has is no state change.
HandleSortModeChange(zone, mode) ==
    /\ cardSortMode[zone] # mode
    /\ cardSortMode' = [cardSortMode EXCEPT ![zone] = mode]
    /\ deckGroups' = DeckGroups(deck, cardDetails, genesysCards, cardSortMode')
    /\ CapRendered
    /\ UNCHANGED <<deckInput, cardDetails, fetchVars, deck, missingCardContext,
                   toast, selectedCards, hostVars, libVars>>

\* blockedCards: isBlocked of one group, read from the metadata of the
\* group's id
IsBlocked(card, details) ==
    /\ card.id \in DOMAIN details
    /\ details[card.id].type # Undefined
    /\ \/ Includes(toLowerCase(details[card.id].type), TxtLink)
       \/ Includes(toLowerCase(details[card.id].type), TxtPendulum)

\* blockedCards: the entry stored for the first blocked group of a name
BlockedEntry(card, details) ==
    [card EXCEPT
        !.type = IF details[card.id].type # Undefined THEN details[card.id].type ELSE @,
        !.race = IF details[card.id].race # Undefined THEN details[card.id].race ELSE @]

\* blockedCards: the Map from card.name to an entry, kept in insertion order
RECURSIVE BlockedPass(_, _, _)
BlockedPass(cards, details, unique) ==
    IF cards = <<>> THEN unique
    ELSE IF ~IsBlocked(Head(cards), details) THEN BlockedPass(Tail(cards), details, unique)
    ELSE IF \E k \in 1..Len(unique) : unique[k].name = Head(cards).name
    THEN BlockedPass(Tail(cards), details,
            [unique EXCEPT ![CHOOSE k \in 1..Len(unique) : unique[k].name = Head(cards).name].count =
                                @ + Head(cards).count])
    ELSE BlockedPass(Tail(cards), details, Append(unique, BlockedEntry(Head(cards), details)))

\* blockedCards: sort((a, b) => a.name.localeCompare(b.name)), a stable sort
RECURSIVE SortByName(_)
SortByName(entries) ==
    IF entries = <<>> THEN <<>>
    ELSE InsertBefore(SortByName(SubSeq(entries, 1, Len(entries) - 1)), entries[Len(entries)],
            {k \in 1..(Len(entries) - 1) :
                localeCompare(toLowerCase(SortByName(SubSeq(entries, 1, Len(entries) - 1))[k].name),
                              toLowerCase(entries[Len(entries)].name)) > 0})

\* the blockedCards memo
blockedCards(groups, details) ==
    IF ~groups.has THEN <<>>
    ELSE SortByName(BlockedPass(groups.main \o groups.extra \o groups.side, details, <<>>))

\* the blockedCardTotalCount memo
RECURSIVE blockedCardTotalCount(_)
blockedCardTotalCount(blocked) ==
    IF blocked = <<>> THEN 0 ELSE Head(blocked).count + blockedCardTotalCount(Tail(blocked))

\* handlePointCapChange(value): the cap field of the summary panel hands in
\* Number(event.target.value) || 0. A value equal to the state is no state
\* change.
HandlePointCapChange(value) ==
    /\ value # pointCap
    /\ pointCap' = value
    /\ cardsOverCap' = OverCap(value, TotalPoints(deckGroups))
    /\ UNCHANGED <<deckInput, cardDetails, fetchVars, cardSortMode, deck, deckGroups,
                   missingCardContext, toast, selectedCards, hostVars, libVars>>

---------------------------------------------------------------------------
(* The deck field and the missing-ID resolver.                              *)

\* setDeckInput(value) and the render that follows: the deck memo, the fetch
\* effect (skipped when the deck stays null), the deckGroups memo, and the
\* resolver, which unmounts when its zone has no placeholder left (the
\* auto-close effect then clears the context) and otherwise clamps its
\* selection to the new number of placeholders. From the last step to the
\* first: the state after the render, the effect and the resolver's
\* missingCount for the new deck memo, the call.
\* the render without the auto-close effect
RenderedResolverStays(value, memo, effect, missingCount) ==
    /\ deckInput' = value
    /\ deck' = memo
    /\ cardDetails' = effect.cardDetails
    /\ isFetchingCards' = effect.isFetchingCards
    /\ cardError' = effect.cardError
    /\ fetches' = effect.fetches
    /\ deckGroups' = DeckGroups(memo, effect.cardDetails, genesysCards, cardSortMode)
    /\ CapRendered
    /\ missingCardContext' = missingCardContext
    /\ selectedCards' = SubSeq(selectedCards, 1, Min(Len(selectedCards), missingCount))

Rendered(value, memo, effect, missingCount) ==
    /\ deckInput' = value
    /\ deck' = memo
    /\ cardDetails' = effect.cardDetails
    /\ isFetchingCards' = effect.isFetchingCards
    /\ cardError' = effect.cardError
    /\ fetches' = effect.fetches
    /\ deckGroups' = DeckGroups(memo, effect.cardDetails, genesysCards, cardSortMode)
    /\ CapRendered
    /\ IF missingCardContext.open /\ missingCount = 0
       THEN missingCardContext' = NoContext /\ selectedCards' = <<>>
       ELSE /\ missingCardContext' = missingCardContext
            /\ selectedCards' = SubSeq(selectedCards, 1, Min(Len(selectedCards), missingCount))

DeckChangedFrom(value, memo, pending) ==
    Rendered(value, memo,
             IF ~deck.hasDeck /\ ~memo.hasDeck
             THEN NoFetchEffect
             ELSE FetchEffect(memo, cardDetails, pending),
             Len(MissingSlots(memo, missingCardContext.zone)))

\* the deck change with the closures it supersedes left out of fetches: a
\* cancelled closure changes no state when it settles
DeckChanged(value, memo) == DeckChangedFrom(value, memo, {})

DeckInputChanged(value) == DeckChanged(value, DeckMemo(value))

\* handleDeckInputChange(value): the field's onChange. A value equal to the
\* state is no state change.
HandleDeckInputChange(value) ==
    /\ value # deckInput
    /\ DeckInputChanged(value)
    /\ UNCHANGED <<cardSortMode, toast, hostVars, libVars>>

\* handleDeckInputChange(value) with the closures of the fetches the change
\* supersedes kept in fetches until their promises settle
HandleDeckInputChangeInFlight(value) ==
    /\ value # deckInput
    /\ DeckChangedFrom(value, DeckMemo(value), fetches)
    /\ UNCHANGED <<cardSortMode, toast, hostVars, libVars>>

\* the URL write effect: the parameter is deleted outside the results view
\* and for an empty shareToken, and set to shareToken otherwise
WriteEffect(deps, loc) ==
    IF ~deps.isResultsView \/ deps.shareToken = <<>>
    THEN [loc EXCEPT !.deck = <<>>]
    ELSE [loc EXCEPT !.deck = deps.shareToken]

\* the URL decode effect from the decoded token on: a token that does not
\* decode is logged; otherwise setDeckInput(decoded) and, outside the
\* results view, navigate('/results', { replace: true })
DecodedEffect(deps, input, loc, hash) ==
    IF hash.error # "" THEN [deckInput |-> input, location |-> loc]
    ELSE [deckInput |-> hash.text,
          location |-> IF deps.isResultsView THEN loc
                       ELSE [pathname |-> "/results", deck |-> <<>>]]

DecodeEffect(deps, input, loc) ==
    IF deps.deckQueryParam = <<>> THEN [deckInput |-> input, location |-> loc]
    ELSE DecodedEffect(deps, input, loc, decodeDeckHash(deps.deckQueryParam))

\* the two URL effects of one commit, in source order: each runs when one of
\* its dependencies differs from the commit before. Both read the state of
\* their render; loc is the location the write effect leaves.
DecodeEffectOf(deps, before, input, loc) ==
    IF \/ deps.deckQueryParam # before.deckQueryParam
       \/ deps.isResultsView # before.isResultsView
    THEN DecodeEffect(deps, input, loc)
    ELSE [deckInput |-> input, location |-> loc]

UrlEffects(deps, before, input, loc) ==
    DecodeEffectOf(deps, before, input,
                   IF deps # before THEN WriteEffect(deps, loc) ELSE loc)

\* the effects of the last commit run and the page renders what they set
UrlEffectsDone(after) ==
    /\ location' = after.location
    /\ IF after.deckInput # deckInput
       THEN DeckInputChanged(after.deckInput)
       ELSE UNCHANGED <<deckInput, cardDetails, fetchVars, deck, deckGroups, capVars,
                        missingCardContext, selectedCards>>

\* the effect phase of the last render, whose dependencies are deps
EffectsRunWith(deps) ==
    /\ committedAt # <<deckInput, location>>
    /\ committedAt' = <<deckInput, location>>
    /\ committed' = deps
    /\ UrlEffectsDone(UrlEffects(deps, committed, deckInput, location))

EffectsRun ==
    /\ EffectsRunWith(DepsOf(ShareTokenOf(deckInput), location))
    /\ UNCHANGED <<cardSortMode, toast, genesysCards, savedFolders, lookupVars, libVars>>

\* the location changes from outside the page: the Back button, or a share
\* link opened in the tab
LocationChanged(loc) ==
    /\ loc # location
    /\ location' = loc
    /\ UNCHANGED <<deckInput, cardDetails, fetchVars, cardSortMode, deck, deckGroups, capVars,
                   missingCardContext, toast, selectedCards, genesysCards, committed,
                   committedAt, savedFolders, lookupVars, libVars>>

\* handleImportYdkFile(file) from the parsed file p on: a file without cards
\* raises the error toast; otherwise setDeckInput(buildYdke(...)), a deck code
\* equal to the state being no state change, and the success toast
ImportedCode(code) ==
    /\ IF code = deckInput
       THEN UNCHANGED <<deckInput, cardDetails, fetchVars, deck, deckGroups, capVars,
                        missingCardContext, selectedCards>>
       ELSE DeckInputChanged(code)
    /\ toast' = [kind |-> "success", limit |-> 0]

ImportedDeck(p) ==
    IF Len(p.main) = 0 /\ Len(p.extra) = 0 /\ Len(p.side) = 0
    THEN /\ toast' = [kind |-> "error", limit |-> 0]
         /\ UNCHANGED <<deckInput, cardDetails, fetchVars, deck, deckGroups, capVars,
                        missingCardContext, selectedCards>>
    ELSE ImportedCode(buildYdke(p.main, p.extra, p.side))

\* the import of the chosen file, whose text is textIn
HandleImportYdkFile ==
    /\ pc = "import"
    /\ parsedText' = parseYdk(textIn)
    /\ ImportedDeck(parseYdk(textIn))
    /\ pc' = "imported"
    /\ UNCHANGED <<cardSortMode, hostVars, textIn, codecIn, ydke, parsed, rebuilt,
                   token, decoded, rawName, norm1, norm2>>

\* handleMissingCardSelect(card), called by CardSections for a group whose id
\* is 0; the resolver mounts with an empty selection. The resolver is a
\* full-screen overlay: no group can be clicked while it is open.
HandleMissingCardSelect(zone) ==
    /\ ~missingCardContext.open
    /\ \E k \in 1..Len(deckGroups[zone]) :
          LET card == deckGroups[zone][k]
              slots == MissingSlots(deck, card.zone)
          IN  /\ card.id = Zero
              /\ IF Len(slots) = 0
                 THEN /\ toast' = [kind |-> "info", limit |-> 0]
                      /\ UNCHANGED <<missingCardContext, selectedCards>>
                 ELSE /\ missingCardContext' =
                            [open |-> TRUE, zone |-> card.zone, cardName |-> card.name]
                      /\ selectedCards' = <<>>
                      /\ UNCHANGED toast
    /\ UNCHANGED <<deckInput, cardDetails, fetchVars, cardSortMode, deck, deckGroups, capVars,
                   hostVars, libVars>>

\* the missingCount prop of the mounted resolver
MissingCount == Len(MissingSlots(deck, missingCardContext.zone))

\* handleAddCard without the test of missingCount
HandleAddCardUncapped(cardId) ==
    /\ missingCardContext.open
    /\ selectedCards' = Append(selectedCards, cardId)
    /\ UNCHANGED <<deckInput, cardDetails, fetchVars, cardSortMode, deck, deckGroups, capVars,
                   missingCardContext, toast, hostVars, libVars>>

\* MissingIdResolver handleAddCard(card): a search result is picked
HandleAddCard(cardId) ==
    /\ missingCardContext.open
    /\ selectedCards' = IF Len(selectedCards) >= MissingCount THEN selectedCards
                        ELSE Append(selectedCards, cardId)
    /\ UNCHANGED <<deckInput, cardDetails, fetchVars, cardSortMode, deck, deckGroups, capVars,
                   missingCardContext, toast, hostVars, libVars>>

\* MissingIdResolver handleRemoveSingle(cardId): the last pick of that id goes
HandleRemoveSingle(cardId) ==
    /\ missingCardContext.open
    /\ LET hits == {i \in 1..Len(selectedCards) : selectedCards[i] = cardId}
           targetIndex == CHOOSE i \in hits : \A j \in hits : j <= i
       IN  selectedCards' =
              IF hits = {} THEN selectedCards
              ELSE SubSeq(selectedCards, 1, targetIndex - 1)
                   \o SubSeq(selectedCards, targetIndex + 1, Len(selectedCards))
    /\ UNCHANGED <<deckInput, cardDetails, fetchVars, cardSortMode, deck, deckGroups, capVars,
                   missingCardContext, toast, hostVars, libVars>>

\* MissingIdResolver handleClear
HandleClear ==
    /\ missingCardContext.open
    /\ selectedCards' = <<>>
    /\ UNCHANGED <<deckInput, cardDetails, fetchVars, cardSortMode, deck, deckGroups, capVars,
                   missingCardContext, toast, hostVars, libVars>>

\* closeTopModal with the resolver on top (the saved-decks, card, blocked-list
\* and point-list modals are not part of this model), reached from
\* requestCloseTopModal: the resolver's onClose
RequestCloseTopModal ==
    /\ missingCardContext.open
    /\ missingCardContext' = NoContext
    /\ selectedCards' = <<>>
    /\ UNCHANGED <<deckInput, cardDetails, fetchVars, cardSortMode, deck, deckGroups, capVars,
                   toast, hostVars, libVars>>

\* MissingIdResolver selectedSummary: the picks grouped by id, in the order of
\* each id's first pick
selectedSummary(cards) ==
    LET grouped == CountPass(cards, 0, <<>>)
    IN  [k \in 1..Len(grouped) |-> [id |-> grouped[k].id, count |-> grouped[k].count]]

\* handleMissingIdResolve: the replacement ids, count copies of each entry
RECURSIVE Replacements(_)
Replacements(selection) ==
    IF selection = <<>> THEN <<>>
    ELSE [i \in 1..Head(selection).count |-> Head(selection).id]
         \o Replacements(Tail(selection))

\* a resolve that fills the placeholder slots from the last one backwards
FillFromLastSlot(section, slots, replacements, limit) ==
    [i \in 1..Len(section) |->
        IF \E index \in 0..(limit - 1) : slots[Len(slots) - index] = i - 1
        THEN replacements[(CHOOSE index \in 0..(limit - 1) : slots[Len(slots) - index] = i - 1) + 1]
        ELSE section[i]]

\* a resolve that hands out the replacements last one first
FillSlotsLastPickFirst(section, slots, replacements, limit) ==
    [i \in 1..Len(section) |->
        IF \E index \in 0..(limit - 1) : slots[index + 1] = i - 1
        THEN replacements[limit - (CHOOSE index \in 0..(limit - 1) : slots[index + 1] = i - 1)]
        ELSE section[i]]

\* handleMissingIdResolve: updated[zone][slots[index]] = replacements[index]
\* for index < limit
FillSlots(section, slots, replacements, limit) ==
    [i \in 1..Len(section) |->
        IF \E index \in 0..(limit - 1) : slots[index + 1] = i - 1
        THEN replacements[(CHOOSE index \in 0..(limit - 1) : slots[index + 1] = i - 1) + 1]
        ELSE section[i]]

\* handleMissingIdResolve(selection). From the last step to the first: the
\* state after setDeckInput(nextYdke), closeTopModal and the toast; the fetch
\* effect of the new deck; nextYdke of the updated deck; the early returns and
\* the slots filled; limit; the call.
Resolved(nextYdke, memo, effect, limit) ==
    /\ deckInput' = nextYdke
    /\ deck' = memo
    /\ cardDetails' = effect.cardDetails
    /\ isFetchingCards' = effect.isFetchingCards
    /\ cardError' = effect.cardError
    /\ fetches' = effect.fetches
    /\ deckGroups' = DeckGroups(memo, effect.cardDetails, genesysCards, cardSortMode)
    /\ CapRendered
    /\ missingCardContext' = NoContext
    /\ selectedCards' = <<>>
    /\ toast' = [kind |-> "success", limit |-> limit]
    /\ UNCHANGED <<cardSortMode, hostVars, libVars>>

ResolvedTo(nextYdke, memo, limit) ==
    Resolved(nextYdke, memo, FetchEffect(memo, cardDetails, {}), limit)

ResolvedDeck(updated, limit) ==
    ResolvedTo(buildYdke(updated["main"], updated["extra"], updated["side"]),
               DeckMemo(buildYdke(updated["main"], updated["extra"], updated["side"])), limit)

ResolveSlots(zone, slots, replacements, limit) ==
    IF Len(slots) = 0
    THEN /\ missingCardContext' = NoContext
         /\ selectedCards' = <<>>
         /\ UNCHANGED <<deckInput, cardDetails, fetchVars, cardSortMode, deck,
                        deckGroups, capVars, toast, hostVars, libVars>>
    ELSE IF Len(replacements) = 0 THEN UNCHANGED vars
    ELSE ResolvedDeck([z \in Zones |->
                          IF z = zone
                          THEN FillSlots(Section(deck.deck, z), slots, replacements, limit)
                          ELSE Section(deck.deck, z)],
                      limit)

ResolveWith(zone, slots, replacements) ==
    ResolveSlots(zone, slots, replacements, Min(Len(replacements), Len(slots)))

handleMissingIdResolve(selection) ==
    IF ~deck.hasDeck \/ ~missingCardContext.open THEN UNCHANGED vars
    ELSE ResolveWith(missingCardContext.zone, MissingSlots(deck, missingCardContext.zone),
                     Replacements(selection))

\* MissingIdResolver handleConfirm
HandleConfirm ==
    /\ missingCardContext.open
    /\ IF Len(selectedSummary(selectedCards)) = 0 \/ MissingCount = 0
       THEN UNCHANGED vars
       ELSE handleMissingIdResolve(selectedSummary(selectedCards))

---------------------------------------------------------------------------
(* Inputs of the App.                                                       *)

\* the ids of the resolver's search results
ReplacementIds == {IdCardA, IdCardB}

\* decks pasted as deck codes: placeholders around a known card in main and a
\* placeholder in extra; a deck without placeholders; a deck of one
\* placeholder
AppDecks ==
    { [main |-> <<Zero, IdCardA, Zero, Zero>>, extra |-> <<Zero>>, side |-> <<>>],
      [main |-> <<IdCardA>>, extra |-> <<>>, side |-> <<>>],
      [main |-> <<Zero>>, extra |-> <<>>, side |-> <<>>] }

\* 'ydke://AQ!!!': a main section of one byte
MisalignedYdke == YdkeMarker \o <<65, 81, 33, 33, 33>>

\* what the deck field receives: the deck codes, a misaligned code, nothing
AppInputs == {buildYdke(d.main, d.extra, d.side) : d \in AppDecks} \cup {MisalignedYdke, <<>>}

\* section payloads: empty, one card, 1, 2, 3, 5, 6 and 7 bytes, a character
\* outside the alphabet, a length base64 cannot have
PayloadOneCard == <<65, 81, 65, 65, 65, 65, 61, 61>>
PayloadBytes1 == <<65, 81>>
PayloadBytes2 == <<65, 81, 65>>
PayloadBytes3 == <<65, 81, 65, 65>>
PayloadBytes5 == <<65, 81, 65, 65, 65, 65, 65>>
PayloadBytes6 == <<65, 81, 65, 65, 65, 65, 65, 65>>
PayloadBytes7 == <<65, 81, 65, 65, 65, 65, 65, 65, 65, 65>>
PayloadBadChar == <<64, 64, 64, 64>>
PayloadBadLength == <<65>>

MisalignedPayloads ==
    {PayloadBytes1, PayloadBytes2, PayloadBytes3, PayloadBytes5, PayloadBytes6, PayloadBytes7}

SectionPayloads ==
    MisalignedPayloads \cup {<<>>, PayloadOneCard, PayloadBadChar, PayloadBadLength}

\* deck codes of three payloads
PayloadCodes ==
    {YdkeMarker \o Join(<<a, b, c>>, ChBang) : a, b, c \in SectionPayloads}

\* the user pastes the text into the empty field of a fresh page
PasteDeckCode ==
    /\ pc = "paste"
    /\ ydke # deckInput
    /\ DeckInputChanged(ydke)
    /\ pc' = "pasted"
    /\ UNCHANGED <<cardSortMode, toast, hostVars, codecIn, ydke, parsed, rebuilt,
                   token, decoded, rawName, norm1, norm2, textVars>>

---------------------------------------------------------------------------
(* Specifications of the library callers.                                   *)

InitCodec ==
    /\ AppStart
    /\ genesysCards = <<>>
    /\ \/ /\ pc = "build"
          /\ codecIn \in {[given |-> TRUE, main |-> d.main, extra |-> d.extra, side |-> d.side] :
                            d \in CodecDecks}
          /\ ydke = <<>>
       \/ /\ pc = "parse"
          /\ codecIn = NoDeck
          /\ ydke \in PastedCodes
    /\ parsed = NoParse
    /\ rebuilt = <<>>
    /\ token = <<>>
    /\ decoded = NoText
    /\ rawName = <<>>
    /\ norm1 = <<>>
    /\ norm2 = <<>>
    /\ NoTextInput

NextCodec == CallBuildYdke \/ CallParseYdke \/ CallRebuildYdke

SpecCodec == InitCodec /\ [][NextCodec]_vars

InitHash ==
    /\ AppStart
    /\ genesysCards = <<>>
    /\ pc = "encode"
    /\ codecIn = NoDeck
    /\ ydke \in {buildYdke(d.main, d.extra, d.side) : d \in CodecDecks} \cup PastedCodes
    /\ parsed = NoParse
    /\ rebuilt = <<>>
    /\ token = <<>>
    /\ decoded = NoText
    /\ rawName = <<>>
    /\ norm1 = <<>>
    /\ norm2 = <<>>
    /\ NoTextInput

NextHash == CallEncodeDeckHash \/ CallDecodeDeckHash

SpecHash == InitHash /\ [][NextHash]_vars

InitNormalize ==
    /\ AppStart
    /\ genesysCards = <<>>
    /\ pc = "normalize"
    /\ codecIn = NoDeck
    /\ ydke = <<>>
    /\ parsed = NoParse
    /\ rebuilt = <<>>
    /\ token = <<>>
    /\ decoded = NoText
    /\ rawName \in RawNames
    /\ norm1 = <<>>
    /\ norm2 = <<>>
    /\ NoTextInput

NextNormalize == CallNormalize \/ CallNormalizeAgain

SpecNormalize == InitNormalize /\ [][NextNormalize]_vars

---------------------------------------------------------------------------
(* Claims about the deck codec.                                             *)

\* C1: decoding the deck code built from any deck of 32-bit ids (0, duplicates
\* and ids above 2^31 included) gives back the same three sequences.
C1_RoundTrip ==
    (codecIn.given /\ pc \in {"rebuild", "done"}) =>
        /\ parsed.error = ""
        /\ parsed.main = codecIn.main
        /\ parsed.extra = codecIn.extra
        /\ parsed.side = codecIn.side

\* a decoded section of three cards: an id above 2^31 twice, a 0 between
C1_Witness ==
    /\ codecIn.given
    /\ pc = "done"
    /\ Len(codecIn.main) = 3
    /\ codecIn.main[1][1] >= 32768
    /\ codecIn.main[2] = Zero
    /\ codecIn.main[3] = codecIn.main[1]
    /\ parsed.main = codecIn.main

\* C2: decodeDeckHash(encodeDeckHash(s)) = s for every deck-code URI s.
C2_HashRoundTrip ==
    pc = "done" => decoded = [error |-> "", text |-> ydke]

\* a token whose padding was stripped and which uses the URL-safe alphabet
C2_Witness ==
    /\ pc = "done"
    /\ Len(token) % 4 # 0
    /\ \E i \in 1..Len(token) : token[i] \in {ChMinus, ChUnderscore}
    /\ decoded.text = ydke

\* C8 as stated: 'ydke://AQAAAA==!!!' decodes to main=[1], extra=[], side=[]
\* and buildYdke of that deck is the same string.
C8_SameString ==
    (ydke = ScenarioYdke /\ pc = "done") =>
        /\ parsed.error = ""
        /\ parsed.main = <<U32(1)>>
        /\ parsed.extra = <<>>
        /\ parsed.side = <<>>
        /\ rebuilt = ScenarioYdke

\* C8, amended: 'ydke://AQAAAA==!!!' decodes to main=[1], extra=[], side=[];
\* buildYdke of that deck is 'ydke://AQAAAA==!!' (three sections joined by two
\* '!', no trailing '!'), which decodes to the same deck.
C8_Canonical ==
    (ydke = ScenarioYdke /\ pc = "done") =>
        /\ parsed.error = ""
        /\ parsed.main = <<U32(1)>>
        /\ parsed.extra = <<>>
        /\ parsed.side = <<>>
        /\ rebuilt = SubSeq(ScenarioYdke, 1, Len(ScenarioYdke) - 1)
        /\ parseYdke(rebuilt) = parsed

C8_Witness ==
    /\ ydke = ScenarioYdke
    /\ pc = "done"
    /\ rebuilt # <<>>

---------------------------------------------------------------------------
(* Claims about card names.                                                 *)

\* C7: normalizeCardName(normalizeCardName(x)) = normalizeCardName(x) for
\* every string x.
C7_Idempotent ==
    pc = "done" => norm2 = norm1

---------------------------------------------------------------------------
(* The aggregation: a deck code in the field, a point list of the build,    *)
(* and the metadata fetch of the first render.                              *)

InitAggregate ==
    /\ LibIdle
    /\ deckInput \in {buildYdke(d.main, d.extra, d.side) : d \in AggDecks}
    /\ genesysCards \in PointLists
    /\ deck = DeckMemo(deckInput)
    /\ cardDetails = EmptyTable
    /\ isFetchingCards = FetchEffect(deck, EmptyTable, {}).isFetchingCards
    /\ cardError = ""
    /\ fetches = FetchEffect(deck, EmptyTable, {}).fetches
    /\ cardSortMode = [z \in Zones |-> "points"]
    /\ deckGroups = DeckGroups(deck, cardDetails, genesysCards, cardSortMode)
    /\ pointCap = DEFAULT_POINT_CAP
    /\ cardsOverCap = OverCap(pointCap, TotalPoints(deckGroups))
    /\ missingCardContext = NoContext
    /\ toast = NoToast
    /\ selectedCards = <<>>
    /\ HostStart

NextAggregate == FetchCardsDone \/ FetchCardsFailed

SpecAggregate == InitAggregate /\ [][NextAggregate]_vars

---------------------------------------------------------------------------
(* Properties of the aggregation.                                           *)

RECURSIVE SumOf(_)
SumOf(numbers) == IF numbers = <<>> THEN 0 ELSE Head(numbers) + SumOf(Tail(numbers))

SectionIds(zone) == Section(deck.deck, zone)
IdsIn(zone) == {SectionIds(zone)[i] : i \in 1..Len(SectionIds(zone))}
GroupsOf(zone) == deckGroups[zone]
pointTable == PointMapOf(genesysCards)

\* a section holds Card A and its alternate art, both with metadata, so that
\* the two ids are merged into one group
MergedCardA(zone) ==
    /\ {IdCardA, IdCardAAlt} \subseteq IdsIn(zone)
    /\ {IdCardA, IdCardAAlt} \subseteq DOMAIN cardDetails

\* C3: every group of every section has totalPoints = pointsPerCopy * count,
\* merged groups included, and the deck-wide totalPoints is the sum of the
\* groups' totalPoints over the three sections.
C3_TotalPoints ==
    /\ \A z \in Zones : \A k \in 1..Len(GroupsOf(z)) :
          GroupsOf(z)[k].totalPoints = GroupsOf(z)[k].pointsPerCopy * GroupsOf(z)[k].count
    /\ totalPoints =
          SumOf([k \in 1..Len(GroupsOf("main")) |-> GroupsOf("main")[k].totalPoints])
          + SumOf([k \in 1..Len(GroupsOf("extra")) |-> GroupsOf("extra")[k].totalPoints])
          + SumOf([k \in 1..Len(GroupsOf("side")) |-> GroupsOf("side")[k].totalPoints])

\* C3 witness: a group merged from two ids that is worth points, in a deck
\* with groups in more than one section
C3_Witness ==
    /\ \E z \in Zones :
          /\ MergedCardA(z)
          /\ \E k \in 1..Len(GroupsOf(z)) :
                GroupsOf(z)[k].count >= 2 /\ GroupsOf(z)[k].pointsPerCopy > 0
    /\ Cardinality({z \in Zones : GroupsOf(z) # <<>>}) >= 2
    /\ totalPoints > 0

\* C4: the counts of a section's groups add up to the number of slots of the
\* section, under every metadata table.
C4_CountsConserved ==
    \A z \in Zones :
        SumOf([k \in 1..Len(GroupsOf(z)) |-> GroupsOf(z)[k].count]) = Len(SectionIds(z))

\* C4 witness: a section with a merged group and a slot whose metadata is
\* unresolved, which still has a group
C4_Witness ==
    \E z \in Zones :
        /\ MergedCardA(z)
        /\ ~isFetchingCards
        /\ \E k \in 1..Len(GroupsOf(z)) :
              GroupsOf(z)[k].missingInfo /\ GroupsOf(z)[k].id # Zero
        /\ Len(GroupsOf(z)) < Cardinality(IdsIn(z))

\* the normalized display name of slot i of a section
SlotName(zone, i) == normalizeCardName(DisplayName(SectionIds(zone)[i], cardDetails))

\* the normalized names of the groups of a section, or of the entries of the
\* point list, in order
RECURSIVE GroupNames(_)
GroupNames(groups) ==
    IF groups = <<>> THEN <<>>
    ELSE <<normalizeCardName(Head(groups).name)>> \o GroupNames(Tail(groups))

\* the normalized display names of the slots of a section, in order
RECURSIVE SlotNames(_, _)
SlotNames(ids, details) ==
    IF ids = <<>> THEN <<>>
    ELSE <<normalizeCardName(DisplayName(Head(ids), details))>> \o SlotNames(Tail(ids), details)

\* groups, whose normalized names are groupNames, are the reference grouping
\* of the slots whose normalized names are slotNames, under the point table
ReferenceGrouping(groups, groupNames, slotNames, table) ==
    /\ \A k \in 1..Len(groups) : \E i \in 1..Len(slotNames) : groupNames[k] = slotNames[i]
    /\ \A i \in 1..Len(slotNames) :
          /\ Cardinality({k \in 1..Len(groups) : groupNames[k] = slotNames[i]}) = 1
          /\ \A k \in {l \in 1..Len(groups) : groupNames[l] = slotNames[i]} :
                /\ groups[k].count =
                      Cardinality({j \in 1..Len(slotNames) : slotNames[j] = slotNames[i]})
                /\ groups[k].pointsPerCopy =
                      IF slotNames[i] \in DOMAIN table THEN table[slotNames[i]] ELSE 0

\* C9: the groups of a section are the reference grouping by normalized
\* display name: one group per name carried by a slot, counting the slots of
\* that name, worth the point-table value of the name or 0 when absent.
C9_ReferenceGrouping ==
    \A z \in Zones :
        ReferenceGrouping(GroupsOf(z), GroupNames(GroupsOf(z)),
                          SlotNames(SectionIds(z), cardDetails), pointTable)

\* C9 witness: main = [5, 5, 5, 7] with both cards resolved and the list
\* {Card A: 10, Card B: 3} gives Card A x3 worth 30 and Card B x1 worth 3,
\* 33 in total
C9_Witness ==
    /\ deck.hasDeck
    /\ deck.deck.main = ScenarioDeck.main
    /\ DOMAIN cardDetails = {IdCardA, IdCardB}
    /\ Len(GroupsOf("main")) = 2
    /\ GroupsOf("main")[1].name = NameCardA
    /\ GroupsOf("main")[1].count = 3
    /\ GroupsOf("main")[1].totalPoints = 30
    /\ GroupsOf("main")[2].name = NameCardB
    /\ GroupsOf("main")[2].count = 1
    /\ GroupsOf("main")[2].totalPoints = 3
    /\ totalPoints = 33

\* the flags of groups, whose normalized names are groupNames, under the
\* point table
FlagsOf(groups, groupNames, table) ==
    \A k \in 1..Len(groups) :
        /\ groups[k].notInList <=> groupNames[k] \notin DOMAIN table
        /\ groups[k].missingInfo <=> groups[k].id \notin DOMAIN cardDetails
        /\ groupNames[k] \notin DOMAIN table => groups[k].pointsPerCopy = 0
        /\ (groupNames[k] \in DOMAIN table /\ table[groupNames[k]] = 0)
              => (groups[k].pointsPerCopy = 0 /\ ~groups[k].notInList)

\* C10: notInList holds exactly when the group's normalized display name has
\* no entry in the point table, and missingInfo exactly when the metadata
\* table has no entry for the group's card; a listed card worth 0 has
\* pointsPerCopy 0 and notInList false, an unlisted card has pointsPerCopy 0
\* and notInList true.
C10_Flags ==
    \A z \in Zones : FlagsOf(GroupsOf(z), GroupNames(GroupsOf(z)), pointTable)

\* C10 witness: one deck with a listed card worth 0 points and a resolved
\* card that is not in the list
C10_Witness ==
    \E z \in Zones : \E j, k \in 1..Len(GroupsOf(z)) :
        /\ GroupsOf(z)[j].name = NameCardB
        /\ GroupsOf(z)[j].pointsPerCopy = 0
        /\ ~GroupsOf(z)[j].notInList
        /\ GroupsOf(z)[k].name = NameCardA
        /\ ~GroupsOf(z)[k].missingInfo
        /\ GroupsOf(z)[k].notInList

---------------------------------------------------------------------------
(* The page: the deck field, the metadata fetch and the resolver.           *)

Init ==
    /\ LibIdle
    /\ AppStart
    /\ genesysCards = PointListBoth

Next ==
    \/ \E value \in AppInputs : HandleDeckInputChange(value)
    \/ FetchCardsDone
    \/ FetchCardsFailed
    \/ \E zone \in Zones : HandleMissingCardSelect(zone)
    \/ \E cardId \in ReplacementIds : HandleAddCard(cardId)
    \/ \E cardId \in ReplacementIds : HandleRemoveSingle(cardId)
    \/ HandleClear
    \/ HandleConfirm
    \/ RequestCloseTopModal

Spec == Init /\ [][Next]_vars

\* a confirm step of the resolver with k >= 1 picks for a section with
\* missingCount >= 1 placeholders ends as C5 says
ResolveStepFillsFirstSlots ==
    LET zone == missingCardContext.zone
        before == Section(deck.deck, zone)
        after == Section(deck'.deck, zone)
        placeholders == {i \in 1..Len(before) : before[i] = Zero}
        missingCount == Cardinality(placeholders)
        k == Len(selectedCards)
        zerosAfter == {i \in 1..Len(after) : after[i] = Zero}
        lastOnes == {i \in placeholders :
                       Cardinality({j \in placeholders : j > i}) < missingCount - k}
    IN  (HandleConfirm /\ deck.hasDeck /\ missingCount >= 1 /\ k >= 1)
        => /\ deck'.hasDeck
           /\ Len(after) = Len(before)
           /\ k <= missingCount
           /\ k = missingCount => zerosAfter = {}
           /\ k < missingCount =>
                 /\ Cardinality(zerosAfter) = missingCount - k
                 /\ zerosAfter = lastOnes

\* C5: a confirmed resolve of k picks in a section with missingCount
\* placeholders leaves no 0 in the section when k = missingCount, and when
\* 1 <= k < missingCount leaves exactly missingCount - k zeros, at the last
\* missingCount - k of the original placeholder positions.
C5_Resolve == [][ResolveStepFillsFirstSlots]_vars

\* C5 witness: one pick confirmed for a main section of three placeholders;
\* the first placeholder is filled, the last two remain
C5_Witness ==
    /\ toast = [kind |-> "success", limit |-> 1]
    /\ ~missingCardContext.open
    /\ deck.hasDeck
    /\ Len(deck.deck.main) = 4
    /\ deck.deck.main[1] \in ReplacementIds
    /\ deck.deck.main[2] = IdCardA
    /\ deck.deck.main[3] = Zero
    /\ deck.deck.main[4] = Zero

\* the placeholder positions of a section, ascending, 1-based
PlaceholdersOf(section) == {i \in 1..Len(section) : section[i] = Zero}

\* how many placeholders of the section lie before position i
PlaceholdersBefore(section, i) == Cardinality({j \in PlaceholdersOf(section) : j < i})

\* a confirm step of the resolver open on zone, with the replacement ids r
\* handed to handleMissingIdResolve, for a section with placeholders
ConfirmKeepsTheRest(zone, r) ==
    (HandleConfirm /\ deck.hasDeck /\ Len(r) >= 1
               /\ PlaceholdersOf(Section(deck.deck, zone)) # {})
    => /\ deck'.hasDeck
       /\ \A z \in Zones :
             /\ Len(Section(deck'.deck, z)) = Len(Section(deck.deck, z))
             /\ z # zone => Section(deck'.deck, z) = Section(deck.deck, z)
       /\ \A i \in 1..Len(Section(deck.deck, zone)) :
             IF Section(deck.deck, zone)[i] # Zero
             THEN Section(deck'.deck, zone)[i] = Section(deck.deck, zone)[i]
             ELSE IF PlaceholdersBefore(Section(deck.deck, zone), i) < Len(r)
             THEN Section(deck'.deck, zone)[i]
                     = r[PlaceholdersBefore(Section(deck.deck, zone), i) + 1]
             ELSE Section(deck'.deck, zone)[i] = Zero

ConfirmStepKeepsTheRest ==
    ConfirmKeepsTheRest(missingCardContext.zone, Replacements(selectedSummary(selectedCards)))

\* C18: a confirmed resolution on section z leaves the two other sections as
\* they were, keeps the length of every section and every nonzero id of z, and
\* puts the replacements into the placeholder positions of z in ascending
\* position order.
C18_OnlyPlaceholders == [][ConfirmStepKeepsTheRest]_vars

\* C18 witness: Card A and Card B confirmed for the main section 0, 5, 0, 0
\* beside an extra section of one placeholder
C18_Witness ==
    /\ toast = [kind |-> "success", limit |-> 2]
    /\ ~missingCardContext.open
    /\ deck.hasDeck
    /\ deck.deck.main = <<IdCardA, IdCardA, IdCardB, Zero>>
    /\ deck.deck.extra = <<Zero>>
    /\ deck.deck.side = <<>>

\* an add with the selection full changes nothing
AddWhenFullIsNoOp ==
    \A cardId \in ReplacementIds :
        (HandleAddCard(cardId) /\ Len(selectedCards) >= MissingCount) => UNCHANGED vars

\* C19: the selection of the open resolver never holds more than missingCount
\* cards, and an add with the selection full changes nothing and raises no
\* error.
C19_SelectionCapped ==
    /\ [](missingCardContext.open => Len(selectedCards) <= MissingCount)
    /\ [][AddWhenFullIsNoOp]_vars

\* C19 witness: the resolver open on the main section of three placeholders
\* with three picks
C19_Witness ==
    /\ missingCardContext.open
    /\ missingCardContext.zone = "main"
    /\ MissingCount = 3
    /\ Len(selectedCards) = 3

\* a step with the resolver's section out of placeholders: the opening is
\* refused, the confirm re-encodes nothing, and after any step the resolver
\* is closed if its section has no placeholder
ZeroSlotsStep ==
    /\ \A zone \in Zones :
          (HandleMissingCardSelect(zone) /\ Len(MissingSlots(deck, zone)) = 0)
             => (deckInput' = deckInput /\ ~missingCardContext'.open)
    /\ (HandleConfirm /\ MissingCount = 0)
          => (deckInput' = deckInput /\ ~missingCardContext'.open)
    /\ (missingCardContext.open /\ Len(MissingSlots(deck', missingCardContext.zone)) = 0)
          => (~missingCardContext'.open /\ selectedCards' = <<>>)

C20_WitnessBefore ==
    /\ missingCardContext.open
    /\ missingCardContext.zone = "extra"
    /\ selectedCards # <<>>
    /\ \E value \in AppInputs :
          /\ value # deckInput
          /\ DeckMemo(value).hasDeck
          /\ MissingSlots(DeckMemo(value), "extra") = <<>>

---------------------------------------------------------------------------
(* A deck code of three payloads pasted into the empty field.               *)

InitPaste ==
    /\ AppStart
    /\ genesysCards = PointListBoth
    /\ pc = "paste"
    /\ codecIn = NoDeck
    /\ ydke \in PayloadCodes
    /\ parsed = NoParse
    /\ rebuilt = <<>>
    /\ token = <<>>
    /\ decoded = NoText
    /\ rawName = <<>>
    /\ norm1 = <<>>
    /\ norm2 = <<>>
    /\ NoTextInput

NextPaste == PasteDeckCode \/ FetchCardsDone \/ FetchCardsFailed

SpecPaste == InitPaste /\ [][NextPaste]_vars

\* the three payloads of the pasted code
Payload(i) == Split(SliceFrom(ydke, Len(YdkeMarker)), ChBang)[i]

\* the payload decodes to a byte length that is not a multiple of 4
Misaligned(i) ==
    /\ Payload(i) # <<>>
    /\ base64ToBytes(Payload(i)).error = ""
    /\ Len(base64ToBytes(Payload(i)).bytes) % 4 # 0

\* the payload is not base64
Undecodable(i) == Payload(i) # <<>> /\ base64ToBytes(Payload(i)).error # ""

\* C6 as stated: a misaligned payload in any section gives the alignment
\* error whatever the other two sections contain.
C6_AlwaysAlignmentError ==
    (pc = "pasted" /\ \E i \in 1..3 : Misaligned(i))
        => (deck.deckError = ErrAlign /\ ~deck.hasDeck /\ ~deckGroups.has)

\* C6: a misaligned payload in any section leaves the page without a deck,
\* with deckError set and without groups; the error is the alignment error
\* unless a section before the first misaligned one is not base64, and then
\* it is that section's decoding error.
C6_NoDeckFirstErrorWins ==
    (pc = "pasted" /\ \E i \in 1..3 : Misaligned(i))
        => /\ ~deck.hasDeck
           /\ deck.deckError # ""
           /\ ~deckGroups.has
           /\ totalPoints = 0
           /\ \A i \in 1..3 :
                 (Misaligned(i) /\ \A j \in 1..(i - 1) : ~Undecodable(j))
                    => deck.deckError = ErrAlign
           /\ \A j \in 1..3 :
                 (Undecodable(j) /\ \A i \in 1..(j - 1) : ~Misaligned(i))
                    => deck.deckError = ErrAtob

\* C6 witness: a one-card main section and an empty extra section before a
\* side section of five bytes: the alignment error, no deck, no groups
C6_Witness ==
    /\ pc = "pasted"
    /\ Payload(1) = PayloadOneCard
    /\ Payload(2) = <<>>
    /\ Payload(3) = PayloadBytes5
    /\ Misaligned(3)
    /\ deck.deckError = ErrAlign
    /\ ~deck.hasDeck
    /\ ~deckGroups.has

---------------------------------------------------------------------------
(* A deck code and a variant of it handed to parseYdke.                     *)

InitVariant ==
    /\ AppStart
    /\ genesysCards = <<>>
    /\ pc = "variant"
    /\ codecIn = NoDeck
    /\ ydke \in VariantCodes
    /\ textIn \in VariantsOf(ydke)
    /\ parsedText = NoParse
    /\ parsed = NoParse
    /\ rebuilt = <<>>
    /\ token = <<>>
    /\ decoded = NoText
    /\ rawName = <<>>
    /\ norm1 = <<>>
    /\ norm2 = <<>>

NextVariant == CallParseVariant \/ CallParseYdke \/ CallRebuildYdke

SpecVariant == InitVariant /\ [][NextVariant]_vars

\* the variant has white space inside its scheme prefix: the prefix is there
\* once the white space is removed, and not before
SplitPrefix(t) ==
    /\ IndexOf(toLowerCase(Trim(t)), YdkeMarker) < 0
    /\ IndexOf(toLowerCase(RemoveSpaces(t)), YdkeMarker) = 0

---------------------------------------------------------------------------
(* Any text handed to parseYdke.                                            *)

InitText ==
    /\ AppStart
    /\ genesysCards = <<>>
    /\ pc = "text"
    /\ codecIn = NoDeck
    /\ ydke = <<>>
    /\ textIn \in TextInputs
    /\ parsedText = NoParse
    /\ parsed = NoParse
    /\ rebuilt = <<>>
    /\ token = <<>>
    /\ decoded = NoText
    /\ rawName = <<>>
    /\ norm1 = <<>>
    /\ norm2 = <<>>

NextText == CallParseText

SpecText == InitText /\ [][NextText]_vars

\* whether every character of t is white space
IsBlank(t) == \A i \in 1..Len(t) : IsSpace(t[i])

\* the number of '!' in t after its first 'ydke://' in any letter case, or in
\* the whole of t without one: the parts are one more
BangsOf(t, marker) ==
    Cardinality({i \in 1..Len(t) : t[i] = ChBang /\ (marker >= 0 => i > marker + 7)})

PartsOf(t) == BangsOf(t, IndexOf(toLowerCase(t), YdkeMarker)) + 1

\* C12: parseYdke raises the 'no deck provided' error on exactly the empty and
\* the white-space-only inputs, and the 'incomplete deck link' error on every
\* other input that splits on '!' into fewer than 3 parts.
C12_TwoErrors ==
    pc = "done" =>
        /\ IsBlank(textIn) <=> parsedText.error = ErrNoDeck
        /\ (~IsBlank(textIn) /\ PartsOf(textIn) < 3) => parsedText.error = ErrIncomplete

\* C12 witness: a pasted text with characters other than white space and one
\* '!' only, refused as incomplete
C12_Witness ==
    /\ pc = "done"
    /\ ~IsBlank(textIn)
    /\ PartsOf(textIn) = 2
    /\ parsedText.error = ErrIncomplete

---------------------------------------------------------------------------
(* The point cap: the cap field, the deck field and the fetch.              *)

\* what the cap field hands in: a negative number, 0 (also an empty field),
\* caps at, below and above the totals of the decks, and the default
CapValues == {-7, 0, 9, 10, 32, 33, DEFAULT_POINT_CAP}

\* decks worth 33, 10 and 3 points once their cards are fetched, and no deck
CapDecks ==
    { ScenarioDeck,
      [main |-> <<IdCardA>>, extra |-> <<>>, side |-> <<>>],
      [main |-> <<>>, extra |-> <<>>, side |-> <<IdCardB>>] }

CapInputs == {buildYdke(d.main, d.extra, d.side) : d \in CapDecks} \cup {<<>>}

InitCap ==
    /\ LibIdle
    /\ AppStart
    /\ genesysCards = PointListBoth

NextCap ==
    \/ \E value \in CapInputs : HandleDeckInputChange(value)
    \/ \E value \in CapValues : HandlePointCapChange(value)
    \/ FetchCardsDone
    \/ FetchCardsFailed

SpecCap == InitCap /\ [][NextCap]_vars

\* C13: in every reachable state the over-cap flag is true exactly when
\* pointCap > 0 and the deck-wide totalPoints > pointCap; a cap of 0 or less
\* never flags the deck.
C13_OverCap ==
    /\ cardsOverCap <=> (pointCap > 0 /\ totalPoints > pointCap)
    /\ pointCap <= 0 => ~cardsOverCap

\* C13 witness: the reference deck, worth 33 points, flagged under a cap of 32
C13_Witness ==
    /\ totalPoints = 33
    /\ pointCap = 32
    /\ cardsOverCap

\* C13 witness of the other case: the same deck under a cap of 0
C13_WitnessNoCap ==
    /\ totalPoints = 33
    /\ pointCap = 0
    /\ ~cardsOverCap

---------------------------------------------------------------------------
(* The import of a plain-text deck list.                                    *)

\* the lines of the files: the three headers, card 5, card 7 between a space
\* and a carriage return, a negative number, a word, 2^32 + 5, and 7.5
YdkLines ==
    { HeaderMain,
      <<35, 69, 120, 116, 114, 97>>,
      HeaderBangSide,
      <<53>>,
      <<32, 55, 13>>,
      <<45, 55>>,
      <<120>>,
      <<52, 50, 57, 52, 57, 54, 55, 51, 48, 49>>,
      <<55, 46, 53>> }

MaxYdkLines == 2

YdkTexts == {Join(lines, 10) : lines \in SeqsUpTo(YdkLines, MaxYdkLines)}

InitYdk ==
    /\ AppStart
    /\ genesysCards = PointListBoth
    /\ pc = "import"
    /\ codecIn = NoDeck
    /\ ydke = <<>>
    /\ textIn \in YdkTexts
    /\ parsedText = NoParse
    /\ parsed = NoParse
    /\ rebuilt = <<>>
    /\ token = <<>>
    /\ decoded = NoText
    /\ rawName = <<>>
    /\ norm1 = <<>>
    /\ norm2 = <<>>

NextYdk == HandleImportYdkFile \/ FetchCardsDone \/ FetchCardsFailed

SpecYdk == InitYdk /\ [][NextYdk]_vars

\* C14 as stated: the deck code the importer emits decodes to exactly the
\* per-section id sequences parseYdk extracted from the file.
C14_ImportKeepsIds ==
    (pc = "imported" /\ toast.kind = "success") =>
        /\ deck.hasDeck
        /\ deck.deck.main = parsedText.main
        /\ deck.deck.extra = parsedText.extra
        /\ deck.deck.side = parsedText.side

\* where C14 holds: a file whose accepted lines are all unsigned 32-bit
\* integers
C14_ImportKeepsCardIds ==
    (/\ pc = "imported"
     /\ toast.kind = "success"
     /\ \A z \in Zones : \A i \in 1..Len(Section(parsedText, z)) :
           Len(Section(parsedText, z)[i]) = 2) =>
        /\ deck.hasDeck
        /\ \A z \in Zones : Section(deck.deck, z) = Section(parsedText, z)

\* a file of card 5 and, under the extra header, card 7, imported as these
C14_Witness ==
    /\ pc = "imported"
    /\ parsedText = SimpleDeck(<<U32(5)>>, <<>>, <<>>)
    /\ deck.hasDeck
    /\ deck.deck.main = <<U32(5)>>

---------------------------------------------------------------------------
(* The sort of the sections: a deck whose metadata is fetched, and the sort *)
(* mode selects.                                                            *)

MaxSortCards == 3

SortIds == {IdFusionB, IdXyzC, IdFusionD, IdCardB, IdTrapT, IdUnknown}

SortModes == {"points", "default"}

\* the sections whose select is used: the two that hold cards
SortZones == {"side", "extra"}

\* MaxSortCards cards in the side section or in the extra section
SortDecks ==
    {[main |-> <<>>, extra |-> <<>>, side |-> ids] : ids \in [1..MaxSortCards -> SortIds]}
    \cup {[main |-> <<>>, extra |-> ids, side |-> <<>>] : ids \in [1..MaxSortCards -> SortIds]}

\* the table after the API answered for every id it knows
FetchedAll(ids) == [id \in ids \cap DOMAIN CardDb |-> CardDb[id]]

InitSort ==
    /\ LibIdle
    /\ genesysCards = PointListSort
    /\ deckInput \in {buildYdke(d.main, d.extra, d.side) : d \in SortDecks}
    /\ deck = DeckMemo(deckInput)
    /\ cardDetails = FetchedAll(UniqueCardIds(deck))
    /\ isFetchingCards = FALSE
    /\ cardError = ""
    /\ fetches = {}
    /\ cardSortMode = [z \in Zones |-> "points"]
    /\ deckGroups = DeckGroups(deck, cardDetails, genesysCards, cardSortMode)
    /\ pointCap = DEFAULT_POINT_CAP
    /\ cardsOverCap = OverCap(pointCap, TotalPoints(deckGroups))
    /\ missingCardContext = NoContext
    /\ toast = NoToast
    /\ selectedCards = <<>>
    /\ HostStart

NextSort == \E zone \in SortZones, mode \in SortModes : HandleSortModeChange(zone, mode)

SpecSort == InitSort /\ [][NextSort]_vars

\* compareCards in the zone's current mode
Compare(zone, a, b) == compareCards(zone, cardSortMode[zone], a, b)

Sign(n) == IF n < 0 THEN -1 ELSE IF n > 0 THEN 1 ELSE 0

GroupSet(zone) == {deckGroups[zone][k] : k \in 1..Len(deckGroups[zone])}

Antisymmetric(zone) ==
    \A a, b \in GroupSet(zone) : Sign(Compare(zone, a, b)) = -Sign(Compare(zone, b, a))

Transitive(zone) ==
    \A a, b, c \in GroupSet(zone) :
        (Compare(zone, a, b) < 0 /\ Compare(zone, b, c) < 0) => Compare(zone, a, c) < 0

ZeroOnlyForItself(zone) ==
    \A a, b \in GroupSet(zone) : Compare(zone, a, b) = 0 => a = b

\* C15 as stated: in each section and each sort mode compareCards is a strict
\* total order on the groups of the section: antisymmetric, transitive, and 0
\* only for a group compared with itself.
C15_StrictTotalOrder ==
    \A z \in Zones : Antisymmetric(z) /\ Transitive(z) /\ ZeroOnlyForItself(z)

\* what holds of compareCards: it is antisymmetric and 0 only for a group
\* compared with itself
C15_AntisymmetricNoTies ==
    \A z \in Zones : Antisymmetric(z) /\ ZeroOnlyForItself(z)

\* The keys of the structural ordering, read off the cards of the sort:
\* monsters 0, spells 1, traps 2, entries without a resolved type 3
Rank(g) ==
    IF g.id \in {IdFusionB, IdXyzC, IdFusionD} THEN 0
    ELSE IF g.id = IdCardB THEN 1
    ELSE IF g.id = IdTrapT THEN 2
    ELSE 3

\* in the extra section fusion monsters come before xyz monsters; the other
\* cards of a rank share one sub-bucket
SubRank(zone, g) == IF zone = "extra" /\ g.id = IdXyzC THEN 1 ELSE 0

SameBucket(zone, a, b) == Rank(a) = Rank(b) /\ SubRank(zone, a) = SubRank(zone, b)

BucketBefore(zone, a, b) ==
    \/ Rank(a) < Rank(b)
    \/ Rank(a) = Rank(b) /\ SubRank(zone, a) < SubRank(zone, b)

\* ascending name, then ascending first-occurrence index
NameBefore(a, b) ==
    \/ localeCompare(toLowerCase(a.name), toLowerCase(b.name)) < 0
    \/ /\ localeCompare(toLowerCase(a.name), toLowerCase(b.name)) = 0
       /\ a.orderIndex < b.orderIndex

\* two monsters that are neither xyz nor link and differ in level
LevelDecides(a, b) ==
    /\ {a.id, b.id} \subseteq {IdFusionB, IdFusionD}
    /\ a.level # b.level

\* the structural ordering as the claim states it
NameOrdered(zone, a, b) ==
    BucketBefore(zone, a, b) \/ (SameBucket(zone, a, b) /\ NameBefore(a, b))

\* the structural ordering with the level key
StructuralBefore(zone, a, b) ==
    \/ BucketBefore(zone, a, b)
    \/ /\ SameBucket(zone, a, b)
       /\ IF LevelDecides(a, b) THEN a.level > b.level ELSE NameBefore(a, b)

C16_WitnessBuckets ==
    /\ cardSortMode["side"] = "default"
    /\ deck.deck.side = <<IdUnknown, IdTrapT, IdCardB>>
    /\ Len(deckGroups["side"]) = 3
    /\ deckGroups["side"][1].id = IdCardB
    /\ deckGroups["side"][3].id = IdUnknown

PointsBefore(a, b) ==
    \/ a.pointsPerCopy > b.pointsPerCopy
    \/ a.pointsPerCopy = b.pointsPerCopy /\ a.totalPoints > b.totalPoints

PointsTied(a, b) == a.pointsPerCopy = b.pointsPerCopy /\ a.totalPoints = b.totalPoints

C17_WitnessTotal ==
    /\ cardSortMode["side"] = "points"
    /\ Len(deckGroups["side"]) = 2
    /\ deckGroups["side"][1].id = IdCardB
    /\ deckGroups["side"][1].totalPoints = 12
    /\ deckGroups["side"][2].id = IdFusionB
    /\ deckGroups["side"][2].totalPoints = 6

---------------------------------------------------------------------------
(* The advisory placeholder count of parseYdke.                             *)

\* the positions of a section that hold 0
ZerosOf(section) == {i \in 1..Len(section) : section[i] = Zero}

\* those of them that come after a nonzero id of the section
ZerosAfterAnId(section) ==
    {i \in ZerosOf(section) : \E j \in 1..(i - 1) : section[j] # Zero}

\* C21 as stated: inferredCardCount is the number of 0 entries of the three
\* decoded sections (0, standing for absent, when there is none).
C21_CountsEveryZero ==
    (pc \in {"rebuild", "done"} /\ parsed.error = "") =>
        parsed.inferredCardCount =
            Cardinality(ZerosOf(parsed.main)) + Cardinality(ZerosOf(parsed.extra))
            + Cardinality(ZerosOf(parsed.side))

\* C21: inferredCardCount is the number of 0 entries of the three decoded
\* sections that come after a nonzero id of their own section; a 0 before the
\* first nonzero id of its section is not counted. The count is absent (0
\* here) when that number is 0.
C21_CountsZerosAfterAnId ==
    (pc \in {"rebuild", "done"} /\ parsed.error = "") =>
        parsed.inferredCardCount =
            Cardinality(ZerosAfterAnId(parsed.main)) + Cardinality(ZerosAfterAnId(parsed.extra))
            + Cardinality(ZerosAfterAnId(parsed.side))

\* C21 witness: a main section 0, id, 0 decoded with a count of 1
C21_Witness ==
    /\ pc = "done"
    /\ parsed.error = ""
    /\ Len(parsed.main) = 3
    /\ parsed.main[1] = Zero
    /\ parsed.main[2] # Zero
    /\ parsed.main[3] = Zero
    /\ parsed.inferredCardCount = 1

---------------------------------------------------------------------------
(* The merge pass of toGroup.                                               *)

\* the groups of a section whose display name normalizes to that of slot i
GroupsOfSlot(zone, i) ==
    {k \in 1..Len(GroupsOf(zone)) :
        normalizeCardName(GroupsOf(zone)[k].name) = SlotName(zone, i)}

\* no two groups carry the same name, and the groups carrying the name of a
\* slot are the same for every slot of that name, and are one group
OneGroupPerName(groupNames, slotNames) ==
    /\ \A k, l \in 1..Len(groupNames) : groupNames[k] = groupNames[l] => k = l
    /\ \A i \in 1..Len(slotNames) :
          Cardinality({k \in 1..Len(groupNames) : groupNames[k] = slotNames[i]}) = 1

\* C22: no two groups of a section share a normalized display name, and the
\* slots of a section whose display names normalize to the same value are
\* all counted in one single group of that section.
C22_OneGroupPerName ==
    \A z \in Zones :
        OneGroupPerName(GroupNames(GroupsOf(z)), SlotNames(SectionIds(z), cardDetails))

\* C22 witness: Card A and its alternate art, two ids with display names
\* "Card A" and "CARD  A", share a section and are one group there
C22_Witness ==
    \E z \in Zones :
        /\ MergedCardA(z)
        /\ \E i, j \in 1..Len(SectionIds(z)) :
              /\ SectionIds(z)[i] = IdCardA
              /\ SectionIds(z)[j] = IdCardAAlt
              /\ GroupsOfSlot(z, i) = GroupsOfSlot(z, j)
              /\ \A k \in GroupsOfSlot(z, i) : GroupsOf(z)[k].count >= 2

---------------------------------------------------------------------------
(* Point list entries with the same normalized name.                        *)

\* entry i is the last entry of the point list with its normalized name
LastOfItsName(i) ==
    \A j \in (i + 1)..Len(genesysCards) :
        normalizeCardName(genesysCards[j].name) # normalizeCardName(genesysCards[i].name)

\* entry i is the last entry with its name in listNames
LastNamed(listNames, i) == \A j \in (i + 1)..Len(listNames) : listNames[j] # listNames[i]

\* the table maps the name of the last entry of each name to its points
LastEntryIndexed(list, listNames, table) ==
    \A i \in 1..Len(list) :
        LastNamed(listNames, i) =>
            /\ listNames[i] \in DOMAIN table
            /\ table[listNames[i]] = list[i].points

\* a group with the name of a list entry that is the last of its name is
\* worth the points of that entry per copy
LastEntryPaid(list, listNames, groups, groupNames) ==
    \A i \in 1..Len(list) :
        LastNamed(listNames, i) =>
            \A k \in 1..Len(groups) :
                groupNames[k] = listNames[i]
                    => /\ groups[k].pointsPerCopy = list[i].points
                       /\ groups[k].totalPoints = list[i].points * groups[k].count

\* C25: the point index maps a normalized name to the points of the last
\* entry of the point list with that name, and every group of the deck with
\* that normalized display name is worth those points per copy.
C25_LastEntryWins ==
    /\ LastEntryIndexed(genesysCards, GroupNames(genesysCards), pointTable)
    /\ \A z \in Zones :
          LastEntryPaid(genesysCards, GroupNames(genesysCards),
                        GroupsOf(z), GroupNames(GroupsOf(z)))

\* C25 witness: the list names Card A twice, "Card A" worth 4 and then
\* "CARD  A" worth 7, and the deck holds a resolved Card A, worth 7 a copy
C25_Witness ==
    /\ Len(genesysCards) = 2
    /\ ~LastOfItsName(1)
    /\ genesysCards[1].points # genesysCards[2].points
    /\ \E z \in Zones : \E k \in 1..Len(GroupsOf(z)) :
          /\ normalizeCardName(GroupsOf(z)[k].name) = normalizeCardName(genesysCards[2].name)
          /\ GroupsOf(z)[k].pointsPerCopy = 7
          /\ ~GroupsOf(z)[k].missingInfo

---------------------------------------------------------------------------
(* The blocked list: decks of pendulum, link, skill and effect cards under  *)
(* two point lists.                                                         *)

MaxBlockedCards == 2

BlockedIds == {IdPendP, IdPendPSkill, IdLinkL, IdCardA}

BlockedDecks ==
    {[main |-> m, extra |-> e, side |-> <<>>] :
        m \in SeqsUpTo(BlockedIds, MaxBlockedCards), e \in {<<>>, <<IdLinkL>>}}

\* Pend P and Link L are worth points in one list and are not listed in the
\* other
PointListBlocked ==
    <<[name |-> NamePendP, points |-> 5], [name |-> NameLinkL, points |-> 2]>>

BlockedPointLists == {PointListBlocked, PointListZero}

InitBlocked ==
    /\ LibIdle
    /\ genesysCards \in BlockedPointLists
    /\ deckInput \in {buildYdke(d.main, d.extra, d.side) : d \in BlockedDecks}
    /\ deck = DeckMemo(deckInput)
    /\ cardDetails = EmptyTable
    /\ isFetchingCards = FetchEffect(deck, EmptyTable, {}).isFetchingCards
    /\ cardError = ""
    /\ fetches = FetchEffect(deck, EmptyTable, {}).fetches
    /\ cardSortMode = [z \in Zones |-> "points"]
    /\ deckGroups = DeckGroups(deck, cardDetails, genesysCards, cardSortMode)
    /\ pointCap = DEFAULT_POINT_CAP
    /\ cardsOverCap = OverCap(pointCap, TotalPoints(deckGroups))
    /\ missingCardContext = NoContext
    /\ toast = NoToast
    /\ selectedCards = <<>>
    /\ HostStart

NextBlocked ==
    \/ FetchCardsDone
    \/ FetchCardsFailed
    \/ \E mode \in SortModes : HandleSortModeChange("main", mode)

SpecBlocked == InitBlocked /\ [][NextBlocked]_vars

\* the type metadata of an id is resolved and indicates Link or Pendulum
IndicatesLinkOrPendulum(id) ==
    /\ id \in DOMAIN cardDetails
    /\ cardDetails[id].type # Undefined
    /\ \/ Includes(toLowerCase(cardDetails[id].type), TxtLink)
       \/ Includes(toLowerCase(cardDetails[id].type), TxtPendulum)

\* the names and counts of a blocked list, and its total count
BlockedSummary(blocked) ==
    <<{<<blocked[k].name, blocked[k].count>> : k \in 1..Len(blocked)},
      blockedCardTotalCount(blocked)>>

\* the blocked list reports the card of an id: it has an entry of the card's
\* display name
ReportedBlocked(id) ==
    \E k \in 1..Len(blockedCards(deckGroups, cardDetails)) :
        normalizeCardName(blockedCards(deckGroups, cardDetails)[k].name)
            = normalizeCardName(DisplayName(id, cardDetails))

\* C23 as stated: a card of the deck is reported as blocked exactly when the
\* resolved type metadata of its id indicates Link or Pendulum, and the
\* blocked list has the same names and counts under every point table.
C23_BlockedByOwnType ==
    /\ \A z \in Zones : \A id \in IdsIn(z) :
          ReportedBlocked(id) <=> IndicatesLinkOrPendulum(id)
    /\ \A cards \in BlockedPointLists :
          BlockedSummary(blockedCards(DeckGroups(deck, cardDetails, cards, cardSortMode), cardDetails))
              = BlockedSummary(blockedCards(deckGroups, cardDetails))

\* C23, the part that holds: a group is in the blocked list exactly when the
\* type metadata of the group's own id indicates Link or Pendulum, and the
\* blocked list has the same names and counts under every point table.
C23_BlockedByGroupId ==
    /\ \A z \in Zones : \A k \in 1..Len(GroupsOf(z)) :
          (\E b \in 1..Len(blockedCards(deckGroups, cardDetails)) :
                blockedCards(deckGroups, cardDetails)[b].name = GroupsOf(z)[k].name)
              <=> IndicatesLinkOrPendulum(GroupsOf(z)[k].id)
    /\ \A cards \in BlockedPointLists :
          BlockedSummary(blockedCards(DeckGroups(deck, cardDetails, cards, cardSortMode), cardDetails))
              = BlockedSummary(blockedCards(deckGroups, cardDetails))

\* C23 witness: a deck with a link monster and a pendulum monster, both
\* resolved and reported, in a list where they are worth points
C23_Witness ==
    /\ genesysCards = PointListBlocked
    /\ {IdPendP, IdLinkL} \subseteq DOMAIN cardDetails
    /\ Len(blockedCards(deckGroups, cardDetails)) = 2
    /\ blockedCardTotalCount(blockedCards(deckGroups, cardDetails)) >= 3
    /\ totalPoints > 0

\* C23: the skill card comes first, the pendulum monster of the same display
\* name second, both resolved, and nothing is reported
C23_WitnessHidden ==
    /\ SectionIds("main") = <<IdPendPSkill, IdPendP>>
    /\ {IdPendP, IdPendPSkill} \subseteq DOMAIN cardDetails
    /\ Len(GroupsOf("main")) = 1
    /\ blockedCards(deckGroups, cardDetails) = <<>>

---------------------------------------------------------------------------
(* parseYdk as a state machine over the lines of a file.                    *)

\* the lines of the files: the headers in three spellings, a header the
\* parser does not know, two cards and a negative number
MachineLines ==
    { HeaderMain,
      <<35, 69, 120, 116, 114, 97>>,
      HeaderBangSide,
      <<35, 120>>,
      <<53>>,
      <<55>>,
      <<45, 55>> }

MaxMachineLines == 3

MachineTexts == {Join(lines, 10) : lines \in SeqsUpTo(MachineLines, MaxMachineLines)}

InitYdkMachine ==
    /\ AppStart
    /\ genesysCards = PointListBoth
    /\ pc = "import"
    /\ codecIn = NoDeck
    /\ ydke = <<>>
    /\ textIn \in MachineTexts
    /\ parsedText = NoParse
    /\ parsed = NoParse
    /\ rebuilt = <<>>
    /\ token = <<>>
    /\ decoded = NoText
    /\ rawName = <<>>
    /\ norm1 = <<>>
    /\ norm2 = <<>>

SpecYdkMachine == InitYdkMachine /\ [][NextYdk]_vars

\* the section a line names, "none" for a line that is no recognized header
HeaderNamed(line) ==
    IF toLowerCase(Trim(line)) = HeaderMain THEN "main"
    ELSE IF toLowerCase(Trim(line)) = HeaderExtra THEN "extra"
    ELSE IF toLowerCase(Trim(line)) \in {HeaderSide, HeaderBangSide} THEN "side"
    ELSE "none"

\* an accepted id line: not empty, no '#' or '!' line, a finite number above 0
AcceptedIdLine(line) ==
    /\ Trim(line) # <<>>
    /\ Trim(line)[1] \notin {35, 33}
    /\ ~Number(Trim(line)).nan
    /\ Number(Trim(line)).positive

\* a skipped line: neither a recognized header nor an accepted id line
SkippedLine(line) == HeaderNamed(line) = "none" /\ ~AcceptedIdLine(line)

\* the section named by the most recent recognized header before line i
SectionAt(lines, i) ==
    IF \A j \in 1..(i - 1) : HeaderNamed(lines[j]) = "none" THEN "main"
    ELSE HeaderNamed(lines[CHOOSE j \in 1..(i - 1) :
                        /\ HeaderNamed(lines[j]) # "none"
                        /\ \A k \in (j + 1)..(i - 1) : HeaderNamed(lines[k]) = "none"])

\* the ids of the lines of an index set, in line order
RECURSIVE IdsInLineOrder(_, _)
IdsInLineOrder(lines, at) ==
    IF at = {} THEN <<>>
    ELSE <<Number(Trim(lines[CHOOSE i \in at : \A j \in at : i <= j])).value>>
         \o IdsInLineOrder(lines, at \ {CHOOSE i \in at : \A j \in at : i <= j})

\* the ids a section is expected to hold
ExpectedSection(lines, zone) ==
    IdsInLineOrder(lines, {i \in 1..Len(lines) :
                              AcceptedIdLine(lines[i]) /\ SectionAt(lines, i) = zone})

\* the lines without line i
WithoutLine(lines, i) == SubSeq(lines, 1, i - 1) \o SubSeq(lines, i + 1, Len(lines))

\* C24: every accepted id line is appended, in line order, to the section of
\* the most recent recognized header (main before any header), and taking a
\* skipped line out of the file changes no section.
C24_StateMachine ==
    pc = "imported" =>
        /\ \A z \in Zones :
              Section(parsedText, z) = ExpectedSection(Split(textIn, 10), z)
        /\ \A i \in 1..Len(Split(textIn, 10)) :
              SkippedLine(Split(textIn, 10)[i])
                  => parseYdk(Join(WithoutLine(Split(textIn, 10), i), 10)) = parsedText

\* C24 witness: "#Extra", a skipped line, and card 5, which lands in extra
C24_Witness ==
    /\ pc = "imported"
    /\ Len(Split(textIn, 10)) = 3
    /\ HeaderNamed(Split(textIn, 10)[1]) = "extra"
    /\ SkippedLine(Split(textIn, 10)[2])
    /\ AcceptedIdLine(Split(textIn, 10)[3])
    /\ parsedText.main = <<>>
    /\ Len(parsedText.extra) = 1
    /\ parsedText.side = <<>>

---------------------------------------------------------------------------
(* The metadata fetch effect under deck changes: the closures of superseded *)
(* fetches stay in fetches until their promises settle.                     *)

\* decks with one known card, another, both, and a placeholder only
FetchDecks ==
    { [main |-> <<IdCardA>>, extra |-> <<>>, side |-> <<>>],
      [main |-> <<IdCardB>>, extra |-> <<>>, side |-> <<>>],
      [main |-> <<IdCardA>>, extra |-> <<>>, side |-> <<IdCardB>>],
      [main |-> <<Zero>>, extra |-> <<>>, side |-> <<>>] }

FetchInputs ==
    {buildYdke(d.main, d.extra, d.side) : d \in FetchDecks} \cup {MisalignedYdke, <<>>}

InitFetch ==
    /\ LibIdle
    /\ AppStart
    /\ genesysCards = PointListBoth

NextFetch ==
    \/ \E value \in FetchInputs : HandleDeckInputChangeInFlight(value)
    \/ FetchCardsDone
    \/ FetchCardsFailed

SpecFetch == InitFetch /\ [][NextFetch]_vars

\* a step of FetchCardsDone or FetchCardsFailed, by what it does to fetches:
\* the promise of one pending closure settles
PromiseSettles == deckInput' = deckInput /\ \E f \in fetches : fetches' = fetches \ {f}

\* every promise of fetchCardsByIds settles: fetch() resolves or rejects, and
\* fetchChunk makes finitely many requests
SpecFetchLive == SpecFetch /\ WF_fetches(PromiseSettles)

\* the closure of the fetch started for the current deck
CurrentFetch == [ids |-> UniqueCardIds(deck), cancelled |-> FALSE]

\* a step in which the promise of a closure settles
FetchSettles == deckInput' = deckInput /\ fetches' # fetches

\* the closure whose promise settles in the step
SettledFetch == CHOOSE f \in fetches : f \notin fetches'

\* the closures other than the one of the current deck are cancelled, and
\* the loading flag is up exactly while the current deck's fetch is pending
OnlyCurrentFetchLive ==
    /\ \A f \in fetches : ~f.cancelled => f = CurrentFetch
    /\ isFetchingCards <=> CurrentFetch \in fetches

\* a settling promise writes cardDetails, cardError or isFetchingCards only
\* if its fetch was started for the current deck
SupersededFetchWritesNothing ==
    FetchSettles =>
        \/ SettledFetch = CurrentFetch
        \/ UNCHANGED <<cardDetails, cardError, isFetchingCards>>

\* C26: in every interleaving of deck changes and fetch completions, the
\* outcome of a superseded fetch, success or failure, is written to none of
\* cardDetails, cardError and isFetchingCards; only the fetch started for
\* the current deck updates them.
C26_SupersededFetchDropped ==
    /\ []OnlyCurrentFetchLive
    /\ [][SupersededFetchWritesNothing]_vars

\* C26 witness: the deck changed from card 5 to card 7 while the fetch for
\* card 5 was in flight; its closure is pending, cancelled, beside the fetch
\* of card 7
C26_Witness ==
    /\ UniqueCardIds(deck) = {IdCardB}
    /\ [ids |-> {IdCardA}, cancelled |-> TRUE] \in fetches
    /\ CurrentFetch \in fetches
    /\ isFetchingCards
    /\ cardDetails = EmptyTable

\* C26 witness: the fetch of the current deck has resolved and the closure
\* of the superseded fetch is still pending
C26_WitnessPending ==
    /\ UniqueCardIds(deck) = {IdCardB}
    /\ fetches = {[ids |-> {IdCardA}, cancelled |-> TRUE]}
    /\ ~isFetchingCards
    /\ DOMAIN cardDetails = {IdCardB}

\* C27: once the deck stops changing, isFetchingCards eventually becomes
\* false and stays false, whether the fetch of the last deck resolves or
\* rejects or the last deck has no id above 0.
C27_LoadingFlagFalls ==
    (<>[][deckInput' = deckInput]_vars) => <>[](~isFetchingCards)

\* the steps in which a promise settles are the steps of the two fetch
\* actions
SettlingIsFetchStep ==
    [][PromiseSettles <=> (FetchCardsDone \/ FetchCardsFailed)]_vars

\* C27 witness: the page is loading the second deck while the fetch of the
\* first is still pending
C27_Witness ==
    /\ isFetchingCards
    /\ \E f \in fetches : f.cancelled
    /\ CurrentFetch \in fetches

\* C27 witness: the fetch of the last deck failed, and the flag is down with
\* the message set and nothing pending
C27_WitnessFailed ==
    /\ ~isFetchingCards
    /\ cardError = ErrFetch
    /\ UniqueCardIds(deck) # {}
    /\ fetches = {}

---------------------------------------------------------------------------
(* The deck field and the 'deck' parameter of the URL.                      *)

UrlDecks ==
    { [main |-> <<IdCardA>>, extra |-> <<>>, side |-> <<>>],
      [main |-> <<IdCardB>>, extra |-> <<>>, side |-> <<>>] }

UrlCodes == {buildYdke(d.main, d.extra, d.side) : d \in UrlDecks}

\* what the field receives: the deck codes, a deck code followed by a space,
\* a misaligned code, nothing
UrlInputs == UrlCodes \cup {c \o <<32>> : c \in UrlCodes} \cup {MisalignedYdke, <<>>}

\* the parameters a location carries: none, the tokens of the deck codes, the
\* token of a text that is no deck code, and a text that is no token
UrlParams ==
    {<<>>, <<33>>, encodeDeckHash(<<120>>)} \cup {encodeDeckHash(c) : c \in UrlCodes}

UrlLocations == {[pathname |-> p, deck |-> t] : p \in {"/", "/results"}, t \in UrlParams}


\* the page is opened at a location
InitUrl ==
    /\ LibIdle
    /\ genesysCards = PointListBoth
    /\ deckInput = <<>>
    /\ cardDetails = EmptyTable
    /\ isFetchingCards = FALSE
    /\ cardError = ""
    /\ fetches = {}
    /\ cardSortMode = [z \in Zones |-> "points"]
    /\ deck = DeckMemo(deckInput)
    /\ deckGroups = DeckGroups(deck, cardDetails, genesysCards, cardSortMode)
    /\ pointCap = DEFAULT_POINT_CAP
    /\ cardsOverCap = FALSE
    /\ missingCardContext = NoContext
    /\ toast = NoToast
    /\ selectedCards = <<>>
    /\ location \in UrlLocations
    /\ committed = NotMounted
    /\ committedAt = <<Undefined, location>>
    /\ savedFolders = ensureFolders(<<>>)
    /\ NoLookup

\* the effects of a commit run before the next event is handled
EffectsFlushed == committedAt = <<deckInput, location>>

NextUrl ==
    \/ EffectsRun
    \/ \E value \in UrlInputs : EffectsFlushed /\ HandleDeckInputChange(value)
    \/ \E loc \in UrlLocations : EffectsFlushed /\ LocationChanged(loc)

\* a step of EffectsRun, by what it does to committedAt
EffectsCommitted ==
    /\ committedAt' = <<deckInput, location>>
    /\ committedAt' # committedAt

\* the effects of every commit run
SpecUrl == InitUrl /\ [][NextUrl]_vars /\ WF_committedAt(EffectsCommitted)

\* the parameter and the field agree and no effect is left to run
Synchronised ==
    /\ EffectsFlushed
    /\ (deck.hasDeck /\ location.pathname = "/results")
          => location.deck = encodeDeckHash(Trim(deckInput))

\* C28 as stated: once no event but the effects themselves changes the
\* field or the location, the two effects reach a state where the parameter
\* is encodeDeckHash of the trimmed field and neither changes anything
\* further; and a token that does not decode leaves the field as it is.
C28_Converges ==
    /\ (<>[][committedAt' # committedAt]_vars) => <>[]Synchronised
    /\ [][(committedAt' # committedAt /\ decodeDeckHash(location.deck).error # "")
              => deckInput' = deckInput]_vars

\* C28, the half that holds: an effect phase at a location whose token does
\* not decode leaves the field as it is
C28_UndecodableKeepsField ==
    [][(committedAt' # committedAt /\ decodeDeckHash(location.deck).error # "")
          => deckInput' = deckInput]_vars

\* C28: the effects have run at a location whose token does not decode,
\* with a deck in the field
C28_WitnessUndecodable ==
    /\ committed.deckQueryParam \notin {Undefined, <<>>}
    /\ decodeDeckHash(committed.deckQueryParam).error # ""
    /\ deck.hasDeck

\* C28: the field holds card 7 while the location carries the token of card
\* 5, with both effects still to run
C28_WitnessJump ==
    /\ UniqueCardIds(deck) = {IdCardB}
    /\ location = [pathname |-> "/results",
                   deck |-> encodeDeckHash(buildYdke(<<IdCardA>>, <<>>, <<>>))]
    /\ committed.deckQueryParam = encodeDeckHash(buildYdke(<<IdCardB>>, <<>>, <<>>))
    /\ committed.shareToken = committed.deckQueryParam
    /\ ~EffectsFlushed


---------------------------------------------------------------------------
(* Metadata lookups, request by request.                                    *)

MaxLookupIds == 3

LookupIdSet == {Zero, IdCardA, IdCardB, IdFusionB, IdUnknown}

\* the id lists handed to fetchCardsByIds
LookupIds == SeqsUpTo(LookupIdSet, MaxLookupIds)

InitLookup ==
    /\ LibIdle
    /\ AppStart
    /\ genesysCards = PointListBoth

\* one lookup from the start page, and every answer to each of its requests
NextLookup ==
    \/ \E ids \in LookupIds : lookup = "idle" /\ StartLookup(ids)
    \/ \E response \in Responses, served \in SUBSET (LookupIdSet \ {Zero}) :
          Request(response, served)

SpecLookup == InitLookup /\ [][NextLookup]_vars

\* the server answers the request that is out: a step that lengthens the log
RequestSettles ==
    /\ lookup = "running"
    /\ \E response \in Responses :
          requestLog' = Append(requestLog, [chunk |-> Head(chunkCalls), response |-> response])

\* every request is answered
SpecLookupLive == SpecLookup /\ WF_requestLog(RequestSettles)

IdsOf(cards) == {cards[i] : i \in 1..Len(cards)}

\* the ids of the chunks still to be requested
RECURSIVE IdsOfCalls(_)
IdsOfCalls(calls) ==
    IF calls = <<>> THEN {} ELSE IdsOf(Head(calls)) \cup IdsOfCalls(Tail(calls))

\* the ids whose single-id request was answered non-OK
RefusedIds ==
    {requestLog[i].chunk[1] : i \in {j \in 1..Len(requestLog) :
        Len(requestLog[j].chunk) = 1 /\ requestLog[j].response = "notOk"}}

\* the ids the lookup was started with
LookedUp == IdsOf(fetchedCards) \cup IdsOfCalls(chunkCalls) \cup
            UNION {IdsOf(requestLog[i].chunk) : i \in 1..Len(requestLog)}

\* a request of several ids that was not answered OK is followed by the
\* calls for its two halves: each non-empty, strictly shorter, and the two
\* together the chunk
SplitsInHalves ==
    (/\ lookup = "running"
     /\ Len(requestLog') = Len(requestLog) + 1
     /\ requestLog'[Len(requestLog')].response # "ok"
     /\ Len(Head(chunkCalls)) > 1)
       => /\ Len(chunkCalls') = Len(chunkCalls) + 1
          /\ chunkCalls'[1] \o chunkCalls'[2] = Head(chunkCalls)
          /\ Len(chunkCalls'[1]) \in 1..(Len(Head(chunkCalls)) - 1)
          /\ Len(chunkCalls'[2]) \in 1..(Len(Head(chunkCalls)) - 1)
          /\ lookup' = "running"
          /\ fetchedCards' = fetchedCards

\* a request makes no chunk longer: every call that is still to be made
\* after it is a call that was to be made before or a strictly shorter half
NoLongerChunk ==
    Len(requestLog') = Len(requestLog) + 1 =>
        \A k \in 1..Len(chunkCalls') :
            \/ \E l \in 2..Len(chunkCalls) : chunkCalls'[k] = chunkCalls[l]
            \/ Len(chunkCalls'[k]) < Len(Head(chunkCalls))

\* a single-id request answered non-OK goes on with the calls that remain,
\* with the cards fetched so far
RefusalSkipsTheId ==
    (/\ lookup = "running"
     /\ Len(requestLog') = Len(requestLog) + 1
     /\ requestLog'[Len(requestLog')].response = "notOk"
     /\ Len(Head(chunkCalls)) = 1)
       => /\ chunkCalls' = Tail(chunkCalls)
          /\ fetchedCards' = fetchedCards
          /\ lookup' # "rejected"

\* what holds of a lookup at every moment: no chunk is empty, a lookup of n
\* ids above 0 has made at most 2n - 1 requests, a refused id is not among
\* the cards, and the lookup is rejected only by a single-id request that
\* threw
LookupBounded ==
    /\ \A k \in 1..Len(chunkCalls) : Len(chunkCalls[k]) >= 1
    /\ Len(requestLog) > 0 => Len(requestLog) <= 2 * Cardinality(LookedUp) - 1
    /\ RefusedIds \cap IdsOf(fetchedCards) = {}
    /\ lookup = "rejected" =>
          /\ Len(requestLog) > 0
          /\ Len(requestLog[Len(requestLog)].chunk) = 1
          /\ requestLog[Len(requestLog)].response = "threw"
    /\ lookup = "running" <=> chunkCalls # <<>>

C29_WitnessRejected ==
    /\ lookup = "rejected"
    /\ fetchedCards # <<>>

---------------------------------------------------------------------------
(* The saved-deck operations.                                               *)

\* the folders and the saved decks together
MaxSaved == 3

\* the names typed for a folder: 'A', 'a ' and a blank
FolderNames == {<<65>>, <<97, 32>>, <<32>>}

\* the names typed for a deck: 'Untitled deck ' and a blank
DeckNames == {UntitledDeck \o <<32>>, <<32>>}

\* the positions a deck is dropped at: before the first deck, after it
DropIndexes == {-1, 1}

\* an id no folder and no deck has
AbsentId == <<63>>

\* the deck entries of a library file: with an id, without one, without a
\* deck text
RawDeck == [id |-> <<100>>, name |-> <<68>>, deck |-> <<120>>]
RawDeckNoId == [id |-> <<32>>, name |-> <<>>, deck |-> <<120, 32>>]
RawDeckNoText == [id |-> <<101>>, name |-> <<69>>, deck |-> <<32>>]

\* the library files: a folder under the id of the default folder; two
\* folders whose ids are the same once trimmed, the id a generated one; the
\* older format, a list of decks; a file without a deck
LibraryFiles ==
    { [folders |-> <<[id |-> DEFAULT_FOLDER_ID \o <<32>>, name |-> <<>>,
                      decks |-> <<RawDeck>>]>>],
      [folders |-> <<[id |-> generateFolderId(0), name |-> <<65>>,
                      decks |-> <<RawDeckNoId, RawDeckNoText>>],
                     [id |-> <<32>> \o generateFolderId(0), name |-> <<97>>, decks |-> <<>>]>>],
      [decks |-> <<RawDeckNoId>>],
      [folders |-> <<[id |-> <<>>, name |-> <<78>>, decks |-> <<RawDeckNoText>>]>>] }

\* the start page with a deck code typed
SavedInputs == {buildYdke(<<IdCardA>>, <<>>, <<>>)}

InitSaved ==
    /\ LibIdle
    /\ genesysCards = PointListBoth
    /\ deckInput \in SavedInputs
    /\ deck = DeckMemo(deckInput)
    /\ cardDetails = EmptyTable
    /\ isFetchingCards = FetchEffect(deck, EmptyTable, {}).isFetchingCards
    /\ cardError = ""
    /\ fetches = FetchEffect(deck, EmptyTable, {}).fetches
    /\ cardSortMode = [z \in Zones |-> "points"]
    /\ deckGroups = DeckGroups(deck, cardDetails, genesysCards, cardSortMode)
    /\ pointCap = DEFAULT_POINT_CAP
    /\ cardsOverCap = OverCap(pointCap, TotalPoints(deckGroups))
    /\ missingCardContext = NoContext
    /\ toast = NoToast
    /\ selectedCards = <<>>
    /\ HostStart

FolderIdInputs == FolderIdsOf(savedFolders) \cup {AbsentId}
DeckIdInputs == DeckIdsOf(savedFolders) \cup {AbsentId}

\* room for the folders and the decks an operation adds
RoomFor(folders, decks) ==
    Len(savedFolders) + TotalDecks(savedFolders) + folders + decks <= MaxSaved

NextSaved ==
    \/ \E name \in DeckNames, folderId \in FolderIdInputs \cup {Undefined} :
          RoomFor(0, 1) /\ handleSaveDeck(name, folderId)
    \/ \E folderId \in FolderIdInputs, deckId \in DeckIdInputs, name \in DeckNames,
          eager \in BOOLEAN :
          handleRenameSavedDeck(folderId, deckId, name, eager)
    \/ \E folderId \in FolderIdInputs, deckId \in DeckIdInputs, eager \in BOOLEAN :
          handleDeleteSavedDeck(folderId, deckId, eager)
    \/ \E source \in FolderIdInputs, deckId \in DeckIdInputs, target \in FolderIdInputs,
          targetIndex \in DropIndexes :
          handleMoveSavedDeck(source, deckId, target, targetIndex)
    \/ \E name \in FolderNames, eager \in BOOLEAN :
          RoomFor(1, 0) /\ handleCreateFolder(name, eager)
    \/ \E folderId \in FolderIdInputs, eager \in BOOLEAN : handleDeleteFolder(folderId, eager)
    \/ \E raw \in LibraryFiles :
          /\ RoomFor(Len(normalizeFolders(raw)), TotalDecks(normalizeFolders(raw)))
          /\ handleImportSavedDecks(raw)

SpecSaved == InitSaved /\ [][NextSaved]_vars

\* the deck entries of all folders, in order
RECURSIVE AllDecks(_)
AllDecks(folders) ==
    IF folders = <<>> THEN <<>> ELSE Head(folders).decks \o AllDecks(Tail(folders))

\* no two folders have the same id
FolderIdsDistinct ==
    \A i, j \in 1..Len(savedFolders) : savedFolders[i].id = savedFolders[j].id => i = j

\* a step leaves the folders as they are, or takes out one folder, which is
\* the folder of that id, holds no deck and is not the only folder
RemovesOnlyAnEmptyFolder(folderId) ==
    /\ AllDecks(savedFolders') = AllDecks(savedFolders)
    /\ \/ savedFolders' = savedFolders
       \/ \E i \in 1..Len(savedFolders) :
             /\ Len(savedFolders) >= 2
             /\ savedFolders[i].id = folderId
             /\ savedFolders[i].decks = <<>>
             /\ savedFolders' = RemoveAt(savedFolders, i)

\* C30: after every sequence of saved-deck operations the folder list holds
\* at least one folder, and a delete-folder step removes at most the one
\* folder named, only when it holds no deck and is not the last folder, so
\* that the deck entries are the same before and after it.
C30_FoldersKept ==
    /\ [](Len(savedFolders) >= 1 /\ FolderIdsDistinct)
    /\ [][\A folderId \in FolderIdInputs, eager \in BOOLEAN :
             handleDeleteFolder(folderId, eager) => RemovesOnlyAnEmptyFolder(folderId)]_vars

\* C30 witness: the default folder was emptied and deleted, and the decks
\* are in the folder that is left
C30_Witness ==
    /\ Len(savedFolders) = 1
    /\ savedFolders[1].id # DEFAULT_FOLDER_ID
    /\ Len(savedFolders[1].decks) >= 1
    /\ toast = ToastSuccess

\* C30: a delete-folder was refused for the only folder, which holds decks
C30_WitnessRefused ==
    /\ Len(savedFolders) = 1
    /\ savedFolders[1].decks # <<>>
    /\ toast = ToastError
===========================================================================
